---- MODULE Spec2Model ----
(***************************************************************************)
(* conter: the project reconciler (manager.Container), the ingress route   *)
(* registry (manager.IngressManager), the container runtime as the docker  *)
(* client drives it, the key/value store (db.Client) and the certificate   *)
(* manager (manager.CertificateManager).                                    *)
(*                                                                         *)
(* A handler is a process: its position is l.pc, the name of the runtime   *)
(* or store call it makes next; one action is one such call together with  *)
(* the handler code around it.  Every call that can fail has a failing     *)
(* branch (the argument fail).                                             *)
(***************************************************************************)
EXTENDS Integers, Sequences, FiniteSets, TLC

\* ------------------------------------------------------------------ bounds
NumPorts == 2          \* size of the host port pool of the model
MaxFaults == 1         \* failed runtime/store calls and container exits per behaviour
MaxAccounts == 2       \* ACME private keys generated per behaviour
MaxTasks == 2          \* background obtain tasks started per behaviour
MaxInflight == 2       \* requests in service per listener

\* --------------------------------------------------------------- constants
PortStartRange == 30000
PortEndRange == PortStartRange + NumPorts - 1

ChallengeTypeHTTP == "HTTP-01"
ChallengeTypeDNS == "DNS-01"
ChallengeTypeNone == "NONE"

\* the goroutines that serve management requests; Serial is the one that
\* serves them when the requests come one after the other
Threads == {"t1", "t2"}
Serial == {"t1"}
Projects == {"p1", "p2"}
ServiceNames == {"s1", "s2"}
\* bbolt iterates a bucket in key order
DomainOrder == <<"d1.test", "d2.test">>
Domains == {DomainOrder[k] : k \in 1..Len(DomainOrder)}

\* fmt.Sprintf("%s_%s", project, service)
ContainerName(project, service) == project \o "_" \o service

NameOrder ==
  <<ContainerName("p1", "s1"), ContainerName("p1", "s2"),
    ContainerName("p2", "s1"), ContainerName("p2", "s2")>>
ContainerNames == {NameOrder[k] : k \in 1..Len(NameOrder)}

\* ------------------------------------------------------------- sequences
RECURSIVE SelectSet(_, _)
\* the elements of sequence s that lie in set S, in the order of s
SelectSet(s, S) ==
  IF s = <<>> THEN <<>>
  ELSE IF Head(s) \in S THEN <<Head(s)>> \o SelectSet(Tail(s), S)
       ELSE SelectSet(Tail(s), S)

Range(s) == {s[k] : k \in 1..Len(s)}

\* slices.Index(s, x) == -1
NotIn(s, x) == \A k \in 1..Len(s) : s[k] # x

\* ---------------------------------------------------------------- strings
\* A string the code searches or cuts is a sequence of segments.
RECURSIVE Str(_)
\* the string a sequence of segments spells
Str(s) == IF s = <<>> THEN "" ELSE Head(s) \o Str(Tail(s))

\* strings.Index(s, x), counted from 1; 0 when x is not in s
Index(s, x) ==
  IF \E k \in 1..Len(s) : s[k] = x
  THEN CHOOSE k \in 1..Len(s) : s[k] = x /\ \A j \in 1..(k - 1) : s[j] # x
  ELSE 0
HasPrefix(s, prefix) == Len(s) >= 1 /\ s[1] = prefix
TrimPrefix(s, prefix) == IF HasPrefix(s, prefix) THEN Tail(s) ELSE s

\* ------------------------------------------------------------------ types
\* types.Ingress as the route registry reads it: one domain per record, the
\* first of the domains the service lists
Ingress(domain, port, endpoint, service, project, challenge) ==
  [Domain |-> domain, ContainerPort |-> port, TargetEndpoint |-> endpoint,
   TargetService |-> service, TargetProject |-> project, ChallengeType |-> challenge]

\* model.IngressRoute, the value of the routes bucket; "no route" is the
\* record with the empty domain
IngressRoute(domain, endpoint, service, project) ==
  [Domain |-> domain, Endpoint |-> endpoint, Service |-> service, Project |-> project]
NoRoute == IngressRoute("", 0, "", "")

\* docker.Container; an endpoint "127.0.0.1:<port>" is modelled by its port
\* and the empty endpoint by 0.  Project is the conter.project label.
\* Memory is the memory limit of its host configuration, in bytes.
Container(id, name, state, endpoint, hash, project) ==
  [ID |-> id, Name |-> name, State |-> state, Endpoint |-> endpoint,
   ConfigHash |-> hash, Project |-> project, Memory |-> 0]
NoContainer == Container(0, "", "", 0, <<>>, "")

IsRunning(c) == c.State = "running"

\* a map[string]string: the nil map and the empty map are different values
\* that hold the same (no) entries; Entries is a set of <<key, value>> pairs
GoMap(nil, entries) == [Nil |-> nil, Entries |-> entries]
NilMap == GoMap(TRUE, {})
EmptyMap == GoMap(FALSE, {})

\* types.Source and types.Quota
Source(type, uri, opts) == [Type |-> type, URI |-> uri, Opts |-> opts]
Quota(memory) == [MemoryLimit |-> memory]

\* encoding/json writes a text; the text is modelled as its tokens
Punct(c) == <<"punct", c>>
Quoted(s) == <<"string", s>>
Text(segments) == <<"text", segments>>
Number(n) == <<"number", n>>
Null == <<"literal", "null">>
Newline == <<"punct", "\n">>
Join(a, b) == IF a = <<>> \/ b = <<>> THEN a \o b ELSE a \o <<Punct(",")>> \o b

\* the keys of the maps of the model, in the order encoding/json sorts them
KeyOrder == <<"A", "B">>

RECURSIVE EncodeEntries(_, _)
\* the entries of a map from KeyOrder[i] on, in the order of the keys
EncodeEntries(m, i) ==
  IF i > Len(KeyOrder) THEN <<>>
  ELSE Join(IF \E e \in m.Entries : e[1] = KeyOrder[i]
            THEN <<Quoted(KeyOrder[i]), Punct(":"),
                   Quoted((CHOOSE e \in m.Entries : e[1] = KeyOrder[i])[2])>>
            ELSE <<>>,
            EncodeEntries(m, i + 1))

\* a nil map is written as null, any other map as an object
EncodeMap(m) ==
  IF m.Nil THEN <<Null>> ELSE <<Punct("{")>> \o EncodeEntries(m, 1) \o <<Punct("}")>>

EncodeSource(src) ==
  <<Punct("{"), Quoted("type"), Punct(":"), Quoted(src.Type), Punct(","),
    Quoted("uri"), Punct(":"), Quoted(src.URI), Punct(","),
    Quoted("opts"), Punct(":")>> \o EncodeMap(src.Opts) \o <<Punct("}")>>

EncodeQuota(q) ==
  <<Punct("{"), Quoted("memory_limit"), Punct(":"), Number(q.MemoryLimit), Punct("}")>>

EncodeVolume(v) ==
  <<Punct("{"), Quoted("name"), Punct(":"), Text(v.Name), Punct(","),
    Quoted("path"), Punct(":"), Text(v.Path), Punct("}")>>

RECURSIVE EncodeVolumesFrom(_, _)
EncodeVolumesFrom(volumes, j) ==
  IF j > Len(volumes) THEN <<>>
  ELSE Join(EncodeVolume(volumes[j]), EncodeVolumesFrom(volumes, j + 1))

EncodeVolumes(volumes) ==
  <<Punct("[")>> \o EncodeVolumesFrom(volumes, 1) \o <<Punct("]")>>

\* encoder.Encode(v) writes the encoding of v and a newline
Encode(tokens) == tokens \o <<Newline>>

\* the digest of a buffer, modelled as the buffer itself: no two buffers have
\* the same digest
MD5(buf) == buf

\* CalculateHash without the volumes
CalculateHashNoVolumes(s) ==
  MD5(Encode(EncodeSource(s.Source)) \o Encode(EncodeMap(s.Environment))
      \o Encode(<<Number(s.Ingress.ContainerPort)>>) \o Encode(EncodeQuota(s.Quota)))

\* CalculateHash: the digest of the encodings of source, environment,
\* container port and quota, and of the volumes when there are any (a nil
\* list and an empty list are both the sequence <<>>)
CalculateHash(s) ==
  MD5(Encode(EncodeSource(s.Source)) \o Encode(EncodeMap(s.Environment))
      \o Encode(<<Number(s.Ingress.ContainerPort)>>) \o Encode(EncodeQuota(s.Quota))
      \o (IF Len(s.Volumes) > 0 THEN Encode(EncodeVolumes(s.Volumes)) ELSE <<>>))

\* ------------------------------------------------------------- the world
\* containers : container name -> docker.Container or NoContainer
\* routes     : domain -> model.IngressRoute or NoRoute        (bucket routes)
\* projects   : project -> sequence of types.Service, <<>> = no record
\* networks   : the projects that have a docker network
\* held       : container ids other handlers hold (never reused for a new one)
World(c, r, p, n, h) ==
  [containers |-> c, routes |-> r, projects |-> p, networks |-> n, held |-> h]

ContainerById(w, id) ==
  IF \E n \in ContainerNames : w.containers[n].ID = id /\ id # 0
  THEN CHOOSE n \in ContainerNames : w.containers[n].ID = id
  ELSE ""

\* the ports published by running containers are bound on the host
BoundPorts(w) ==
  {w.containers[n].Endpoint : n \in {m \in ContainerNames : IsRunning(w.containers[m])}}
    \ {0}

\* variant: megabytes of 1024 * 1024 bytes
ToBytesBinary(mb) == mb * 1024 * 1024
\* ToBytes: megabytes to bytes
ToBytes(mb) == mb * 1000 * 1000

\* variant: the first port of the range, bound or not
GetAvailablePortUnbound(w, start, end) == start
\* GetAvailablePort(start, end): the first port of the range that can be bound
GetAvailablePort(w, start, end) ==
  IF \E p \in start..end : p \notin BoundPorts(w)
  THEN CHOOSE p \in start..end :
         /\ p \notin BoundPorts(w)
         /\ \A q \in start..(p - 1) : q \in BoundPorts(w)
  ELSE 0

\* the id docker gives a new container: one that names no other container
\* and that no handler still holds from an earlier inspection
FreshID(w, l, name) ==
  LET used == {w.containers[n].ID : n \in ContainerNames} \cup w.held
                \cup {l.container.ID}
                \cup {l.containersTodo[k].ID : k \in 1..Len(l.containersTodo)}
      base == CHOOSE k \in 1..Len(NameOrder) : NameOrder[k] = name
      ids == {base + g * Len(NameOrder) : g \in 0..Cardinality(used)}
  IN CHOOSE id \in ids : id \notin used /\ \A j \in ids : j < id => j \in used

\* ---------------------------------------------------------------- requests
\* one entry of ApplyProjectOptions.Services
ServiceOptions(name, type, uri, domains, port, challenge, memory) ==
  [Name |-> name, Source |-> Source(type, uri, NilMap), Environment |-> NilMap,
   IngressDomains |-> domains, ContainerPort |-> port, ChallengeType |-> challenge,
   Quota |-> Quota(memory), Volumes |-> <<>>]

\* types.Volume: a name and a path, each a string in segments
Volume(name, path) == [Name |-> name, Path |-> path]

ApplyProjectOptions(project, services) ==
  [ProjectName |-> project, Services |-> services]

\* types.ValidationError: the map Reasons, field -> reason
NoReasons == <<>>
\* ValidationError.Append: v.Reasons[field] = reason
ValidationAppend(v, field, reason) == (field :> reason) @@ v
HasFailures(v) == DOMAIN v # {}
AppendIf(v, failed, field, reason) ==
  IF failed THEN ValidationAppend(v, field, reason) ELSE v

RECURSIVE validateVolumes(_, _, _, _)
\* the loop over service.Volumes, from volumes[j-1] on
validateVolumes(err, prefix, volumes, j) ==
  IF j > Len(volumes) THEN err
  ELSE LET volume == volumes[j]
           volumePrefix == prefix \o "volumes[" \o ToString(j - 1) \o "]."
           e1 == AppendIf(err, volume.Name = <<>>,
                          volumePrefix \o "name", "Volume name is required")
           e2 == AppendIf(e1, Index(volume.Name, " ") # 0,
                          volumePrefix \o "name", "Volume name must not contain spaces")
           e3 == AppendIf(e2, volume.Path = <<>>,
                          volumePrefix \o "path", "Volume path is required")
           e4 == AppendIf(e3, ~HasPrefix(volume.Path, "/"),
                          volumePrefix \o "path", "Volume path must be absolute")
       IN CHOOSE end \in {validateVolumes(e, prefix, volumes, j + 1) : e \in {e4}} : TRUE

RECURSIVE validateServices(_, _, _)
\* the loop over opts.Services, from services[i-1] on
validateServices(err, S, i) ==
  IF i > Len(S) THEN err
  ELSE LET service == S[i]
           prefix == "services[" \o ToString(i - 1) \o "]."
           exposed == Len(service.IngressDomains) > 0
           e1 == AppendIf(err, service.Name = "",
                          prefix \o "name", "Services name is required")
           e2 == IF service.Source.Type = ""
                 THEN ValidationAppend(e1, prefix \o "source.type", "Source type is required")
                 ELSE AppendIf(e1, service.Source.Type # "docker",
                               prefix \o "source.type",
                               "Source type=" \o service.Source.Type \o " is not supported")
           e3 == AppendIf(e2, service.Source.URI = "",
                          prefix \o "source.uri", "Source URI is required")
           e4 == AppendIf(e3, exposed /\ service.ChallengeType # ChallengeTypeHTTP
                                      /\ service.ChallengeType # ChallengeTypeNone,
                          prefix \o "challenge_type",
                          "Challenge type=" \o service.ChallengeType \o " is not supported")
           e5 == AppendIf(e4, exposed /\ service.ContainerPort <= 0,
                          prefix \o "container_port",
                          "A valid container port is required to expose a service")
           e6 == AppendIf(e5, service.Quota.MemoryLimit > 0
                                /\ service.Quota.MemoryLimit < 128,
                          prefix \o "quota.memory_limit",
                          "The minimum memory limit is 128MB")
           e7 == validateVolumes(e6, prefix, service.Volumes, 1)
       IN CHOOSE end \in {validateServices(e, S, i + 1) : e \in {e7}} : TRUE

\* variant: the services are not looked at once the project name has failed
validateFailFast(opts) ==
  LET top == AppendIf(NoReasons, opts.ProjectName = "",
                      "project_name", "Project name is required")
  IN IF HasFailures(top) THEN top
     ELSE IF Len(opts.Services) = 0
     THEN ValidationAppend(top, "services", "At least one service is required")
     ELSE validateServices(top, opts.Services, 1)
\* opts.validate(): the reasons collected; no reasons is nil
validate(opts) ==
  LET top == AppendIf(NoReasons, opts.ProjectName = "",
                      "project_name", "Project name is required")
  IN IF Len(opts.Services) = 0
     THEN ValidationAppend(top, "services", "At least one service is required")
     ELSE validateServices(top, opts.Services, 1)

\* source.GetImageFromSource: the image of a docker source is its URI; a git
\* source is built by the builder, any other type is an error ("" here)
GetImageFromSource(s) == IF s.Source.Type = "docker" THEN s.Source.URI ELSE ""

\* the types.Service that ApplyProject builds from services[i] of the request
Materialize(project, o) ==
  LET s == [Name |-> o.Name, Hash |-> <<>>,
            ContainerName |-> ContainerName(project, o.Name),
            ContainerImage |-> GetImageFromSource(o),
            Source |-> o.Source, Environment |-> o.Environment, Quota |-> o.Quota,
            Volumes |-> o.Volumes,
            Ingress |-> Ingress(IF o.IngressDomains = <<>> THEN "" ELSE o.IngressDomains[1],
                                o.ContainerPort, 0, o.Name, project, o.ChallengeType)]
  IN [s EXCEPT !.Hash = CalculateHash(s)]

RECURSIVE AllDomains(_)
\* domains = append(domains, service.IngressDomains...) over the services
AllDomains(S) ==
  IF S = <<>> THEN <<>> ELSE Head(S).IngressDomains \o AllDomains(Tail(S))

\* ------------------------------------------------------- handler positions
\* the locals of a handler; n counts what the call has done so far and
\* before is the store as the call found it (both are history, not program state)
NoCounts == [created |-> 0, removed |-> 0, started |-> 0, saved |-> 0, deleted |-> 0]
Idle ==
  [pc |-> "idle", op |-> "", project |-> "", opts |-> ApplyProjectOptions("", <<>>),
   services |-> <<>>, domains |-> <<>>, names |-> <<>>, i |-> 0,
   routesTodo |-> <<>>, containersTodo |-> <<>>, container |-> NoContainer,
   err |-> "", n |-> NoCounts, faulted |-> FALSE, netFailed |-> FALSE,
   before |-> <<>>, log |-> <<>>, again |-> FALSE, retry |-> FALSE, ref |-> <<>>,
   removed |-> 0]

Ret(w, l) == [w |-> w, l |-> l]
\* return err
Fail(w, l, tag, fail) ==
  Ret(w, [l EXCEPT !.pc = "done", !.err = tag, !.faulted = @ \/ fail])
Count(l, what) == [l EXCEPT !.n[what] = @ + 1]
Log(l, step) == [l EXCEPT !.log = Append(@, step)]
\* ------------------------------------------------------------ store (db)
\* bucket.Put([]byte(route.Domain), content) in one transaction
SaveIngressRoute(w, route) == [w EXCEPT !.routes[route.Domain] = route]
\* bucket.Delete([]byte(domain))
RemoveIngressRoute(w, domain) == [w EXCEPT !.routes[domain] = NoRoute]
\* variant: the routes of every project
GetIngressRoutesOfAll(w, project) ==
  SelectSet(DomainOrder, {d \in Domains : w.routes[d] # NoRoute})
\* every route of the bucket whose project is the given one, in key order
GetIngressRoutesByProject(w, project) ==
  SelectSet(DomainOrder,
            {d \in Domains : w.routes[d] # NoRoute /\ w.routes[d].Project = project})
\* bucket.Put([]byte(project), content)
\* variant: the entries are added to the stored list
SaveProjectAppend(w, project, services) ==
  [w EXCEPT !.projects[project] = @ \o services]
SaveProject(w, project, services) == [w EXCEPT !.projects[project] = services]
\* bucket.Delete([]byte(name))
RemoveProjectRecord(w, name) == [w EXCEPT !.projects[name] = <<>>]
GetServicesForProject(w, project) == w.projects[project]
DoesProjectExist(w, name) == Len(GetServicesForProject(w, name)) > 0

\* --------------------------------------------------------------- docker
\* ContainerList with the project filter and no All option: the running
\* containers that carry the project label, as {ID, Names}
ContainerList(w, project) ==
  LET S == {n \in ContainerNames :
              /\ w.containers[n] # NoContainer
              /\ w.containers[n].Project = project
              /\ IsRunning(w.containers[n])}
      names == SelectSet(NameOrder, S)
  IN [k \in 1..Len(names) |-> w.containers[names[k]]]

\* ContainerStart: the published port is bound when the container starts, and
\* the start fails when another running container has bound it
CanStart(w, id) ==
  LET n == ContainerById(w, id)
  IN /\ n # ""
     /\ \/ w.containers[n].Endpoint = 0
        \/ IsRunning(w.containers[n])
        \/ w.containers[n].Endpoint \notin BoundPorts(w)
StartContainer(w, id) ==
  [w EXCEPT !.containers[ContainerById(w, id)].State = "running"]

\* ContainerRemove with Force
CanRemove(w, id) == ContainerById(w, id) # ""
RemoveContainer(w, id) ==
  [w EXCEPT !.containers[ContainerById(w, id)] = NoContainer]

\* ------------------------------------------------ Container.ApplyProject
\* after the service at l.i is applied: services[i] = *applied, next service
AfterService(w, l) ==
  IF l.i < Len(l.services)
  THEN Ret(w, [l EXCEPT !.i = @ + 1, !.pc = "FindContainer", !.container = NoContainer])
  ELSE Ret(w, [l EXCEPT !.pc = "SaveProject", !.container = NoContainer])

\* the call of IngressManager.RegisterRoute(service.Ingress) in ApplyService
CallRegisterRoute(w, l) == Ret(w, [l EXCEPT !.pc = "RegisterRoute"])

\* variant: the network is created before the request is validated
BeginApplyProjectUnvalidated(w, l, opts) ==
  LET l0name == opts.ProjectName
      l0 == [Idle EXCEPT !.op = "apply", !.project = opts.ProjectName, !.opts = opts,
                         !.before = IF l0name \in Projects THEN w.projects[l0name] ELSE <<>>]
      S == opts.Services
      services == [k \in 1..Len(S) |-> Materialize(opts.ProjectName, S[k])]
  IN IF HasFailures(validate(opts))
     THEN Fail([w EXCEPT !.networks = @ \cup ({l0name} \cap Projects)],
               l0, "validation", FALSE)
     ELSE IF \E k \in 1..Len(S) : services[k].ContainerImage = ""
     THEN Fail(w, l0, "image", FALSE)
     ELSE Ret(w, [l0 EXCEPT !.services = services,
                            !.domains = AllDomains(S),
                            !.names = [k \in 1..Len(S) |-> services[k].ContainerName],
                            !.pc = "CreateNetworkIfNotExists"])

\* ApplyProject up to its first runtime call: validate, build the services
BeginApplyProject(w, l, opts) ==
  LET l0name == opts.ProjectName
      l0 == [Idle EXCEPT !.op = "apply", !.project = opts.ProjectName, !.opts = opts,
                         !.before = IF l0name \in Projects THEN w.projects[l0name] ELSE <<>>]
      S == opts.Services
      services == [k \in 1..Len(S) |-> Materialize(opts.ProjectName, S[k])]
  IN IF HasFailures(validate(opts)) THEN Fail(w, l0, "validation", FALSE)
     ELSE IF \E k \in 1..Len(S) : services[k].ContainerImage = ""
     THEN Fail(w, l0, "image", FALSE)
     ELSE Ret(w, [l0 EXCEPT !.services = services,
                            !.domains = AllDomains(S),
                            !.names = [k \in 1..Len(S) |-> services[k].ContainerName],
                            !.pc = "CreateNetworkIfNotExists"])

\* Docker.CreateNetworkIfNotExists
CreateNetworkIfNotExists(w, l, fail) ==
  IF fail THEN Fail(w, l, "network", TRUE)
  ELSE Ret([w EXCEPT !.networks = @ \cup {l.project}],
           [l EXCEPT !.pc = "RemoveUnusedRoutes"])

\* after RemoveUnusedRoutes has returned
AfterRoutes(w, l) ==
  Ret(w, Log([l EXCEPT !.pc = "RemoveUnusedContainers"], "routes"))

\* IngressManager.RemoveUnusedRoutes: read the routes of the project, keep
\* those whose domain is not excluded
RemoveUnusedRoutes(w, l, fail) ==
  LET excluded == IF l.op = "apply" THEN l.domains ELSE <<>>
      routes == GetIngressRoutesByProject(w, l.project)
      todo == SelectSet(routes, {d \in Domains : NotIn(excluded, d)})
      l1 == [l EXCEPT !.routesTodo = todo]
  IN IF todo = <<>> THEN AfterRoutes(w, l1)
     ELSE Ret(w, [l1 EXCEPT !.pc = "RemoveUnusedRoute"])

\* the loop body of RemoveUnusedRoutes: Database.RemoveIngressRoute(route.Domain)
\* and removed++
RemoveUnusedRoute(w, l, fail) ==
  LET d == Head(l.routesTodo)
      l1 == [l EXCEPT !.routesTodo = Tail(@), !.removed = @ + 1]
      l2 == IF w.routes[d] # NoRoute THEN Count(l1, "deleted") ELSE l1
  IN IF fail THEN Fail(w, l, "routes", TRUE)
     ELSE IF l2.routesTodo = <<>> THEN AfterRoutes(RemoveIngressRoute(w, d), l2)
     ELSE Ret(RemoveIngressRoute(w, d), l2)

\* after RemoveUnusedContainers has returned
AfterContainers(w, l) ==
  IF l.op = "apply"
  THEN Ret(w, [l EXCEPT !.i = 1, !.pc = "FindContainer"])
  ELSE Ret(w, Log([l EXCEPT !.pc = "DeleteNetwork"], "containers"))

\* Docker.RemoveUnusedContainers: list the containers of the project and keep
\* those none of whose names is excluded
RemoveUnusedContainers(w, l, fail) ==
  LET excluded == IF l.op = "apply" THEN l.names ELSE <<>>
      listed == ContainerList(w, l.project)
      keep == {k \in 1..Len(listed) : NotIn(excluded, listed[k].Name)}
      todo == [k \in 1..Cardinality(keep) |->
                 listed[CHOOSE j \in keep : Cardinality({m \in keep : m < j}) = k - 1]]
      l1 == [l EXCEPT !.containersTodo = todo]
  IN IF fail THEN Fail(w, l, "containers", TRUE)
     ELSE IF todo = <<>> THEN AfterContainers(w, l1)
     ELSE Ret(w, [l1 EXCEPT !.pc = "RemoveUnusedContainer"])

\* the loop body of RemoveUnusedContainers: c.RemoveContainer(ctx, _container.ID)
RemoveUnusedContainer(w, l, fail) ==
  LET id == Head(l.containersTodo).ID
      l1 == Count([l EXCEPT !.containersTodo = Tail(@)], "removed")
  IN IF fail \/ ~CanRemove(w, id) THEN Fail(w, l, "containers", fail)
     ELSE IF l1.containersTodo = <<>> THEN AfterContainers(RemoveContainer(w, id), l1)
     ELSE Ret(RemoveContainer(w, id), l1)
\* ------------------------------------------------ Container.ApplyService
\* container := o.Docker.FindContainer(ctx, service.ContainerName) and the
\* branch on it; an inspect that fails counts as "no such container"
FindContainer(w, l, fail) ==
  LET service == l.services[l.i]
      container == IF fail THEN NoContainer ELSE w.containers[service.ContainerName]
      l1 == [l EXCEPT !.container = container, !.faulted = @ \/ fail]
      l2 == [l1 EXCEPT !.services[l.i].Ingress.TargetEndpoint = container.Endpoint]
  IN IF container = NoContainer THEN Ret(w, [l1 EXCEPT !.pc = "CreateContainer"])
     ELSE IF container.ConfigHash # service.Hash
     THEN Ret(w, [l2 EXCEPT !.pc = "RemoveContainer"])
     ELSE IF IsRunning(container) THEN CallRegisterRoute(w, l2)
     ELSE Ret(w, [l2 EXCEPT !.pc = "StartContainer"])

\* the hash differs: remove the old container, reset the endpoint, create
RemoveOldContainer(w, l, fail) ==
  IF fail \/ ~CanRemove(w, l.container.ID) THEN Fail(w, l, "remove", fail)
  ELSE Ret(RemoveContainer(w, l.container.ID),
           Count([l EXCEPT !.services[l.i].Ingress.TargetEndpoint = 0,
                           !.pc = "CreateContainer"], "removed"))

\* variant: a reconciler that cannot restart a container that is not running
StartExistingContainerRefused(w, l, fail) == Fail(w, l, "start", fail)

\* the hash matches and the container is not running: start it, register
StartExistingContainer(w, l, fail) ==
  IF fail \/ ~CanStart(w, l.container.ID) THEN Fail(w, l, "start", fail)
  ELSE CallRegisterRoute(StartContainer(w, l.container.ID), Count(l, "started"))

\* Docker.CreateContainer: pull the image, take a host port when the service
\* has a container port, create the container under the service's name
CreateContainer(w, l, fail) ==
  LET service == l.services[l.i]
      exposed == GetAvailablePort(w, PortStartRange, PortEndRange)
      ingress == IF service.Ingress.ContainerPort > 0 THEN exposed ELSE 0
      memory == IF service.Quota.MemoryLimit > 0
                THEN ToBytes(service.Quota.MemoryLimit) ELSE ToBytes(128)
      c == [Container(FreshID(w, l, service.ContainerName), service.ContainerName,
                      "created", ingress, service.Hash, service.Ingress.TargetProject)
              EXCEPT !.Memory = memory]
  IN IF fail THEN Fail(w, l, "create", TRUE)
     ELSE IF service.Ingress.ContainerPort > 0 /\ exposed <= 0
     THEN Fail(w, l, "create", FALSE)
     ELSE IF w.containers[service.ContainerName] # NoContainer
     THEN Fail(w, l, "create", FALSE)
     ELSE Ret([w EXCEPT !.containers[service.ContainerName] = c],
              Count([l EXCEPT !.container = c, !.pc = "StartCreated"], "created"))

\* start the created container; its endpoint becomes the target endpoint
StartCreatedContainer(w, l, fail) ==
  IF fail \/ ~CanStart(w, l.container.ID) THEN Fail(w, l, "start", fail)
  ELSE CallRegisterRoute(
         StartContainer(w, l.container.ID),
         Count([l EXCEPT !.services[l.i].Ingress.TargetEndpoint = l.container.Endpoint],
               "started"))

\* -------------------------------------------- IngressManager.RegisterRoute
\* Match(ingress.Domain) and the checks on the route found
RegisterRoute(w, l, fail) ==
  LET ingress == l.services[l.i].Ingress
      route == w.routes[ingress.Domain]
  IN IF route # NoRoute /\ route.Endpoint = ingress.TargetEndpoint
     THEN AfterService(w, l)
     ELSE IF route # NoRoute /\ route.Project # ingress.TargetProject
     THEN Fail(w, l, "conflict", FALSE)
     ELSE Ret(w, [l EXCEPT !.pc = "SaveIngressRoute"])

\* route = &model.IngressRoute{...}; return i.Database.SaveIngressRoute(route)
RegisterRouteSave(w, l, fail) ==
  LET ingress == l.services[l.i].Ingress
      route == IngressRoute(ingress.Domain, ingress.TargetEndpoint,
                            ingress.TargetService, ingress.TargetProject)
  IN IF fail THEN Fail(w, l, "register", TRUE)
     ELSE AfterService(SaveIngressRoute(w, route), Count(l, "saved"))

\* variant: the services are stored although the store reports a failure
ApplyProjectSaveAnyway(w, l, fail) ==
  IF fail THEN Fail(SaveProject(w, l.project, l.services), l, "save", TRUE)
  ELSE Ret(SaveProject(w, l.project, l.services), [l EXCEPT !.pc = "done"])

\* return services, o.Database.SaveProject(opts.ProjectName, services)
ApplyProjectSave(w, l, fail) ==
  IF fail THEN Fail(w, l, "save", TRUE)
  ELSE Ret(SaveProject(w, l.project, l.services), [l EXCEPT !.pc = "done"])

\* ------------------------------------------------ Container.RemoveProject
\* Server.HandleProjectDelete: refuse a project without a record, else
\* RemoveProject, which starts with RemoveAllRoutes
HandleProjectDelete(w, l, name) ==
  LET l0name == name
      l0 == [Idle EXCEPT !.op = "remove", !.project = name,
                         !.before = IF l0name \in Projects THEN w.projects[l0name] ELSE <<>>]
  IN IF ~DoesProjectExist(w, name) THEN Fail(w, l0, "not_found", FALSE)
     ELSE Ret(w, [l0 EXCEPT !.pc = "RemoveUnusedRoutes"])

\* Docker.DeleteNetwork: NetworkRemove fails for an unknown network and for
\* one that running containers are attached to
CanDeleteNetwork(w, project) ==
  /\ project \in w.networks
  /\ \A n \in ContainerNames :
       ~(w.containers[n].Project = project /\ IsRunning(w.containers[n]))

\* variant: RemoveProject returns the error of DeleteNetwork
DeleteNetworkFatal(w, l, fail) ==
  IF fail \/ ~CanDeleteNetwork(w, l.project)
  THEN Fail(w, Log([l EXCEPT !.netFailed = TRUE], "network"), "network", fail)
  ELSE Ret([w EXCEPT !.networks = @ \ {l.project}],
           Log([l EXCEPT !.pc = "RemoveProject"], "network"))

\* err = o.Docker.DeleteNetwork(ctx, project): an error is only logged
DeleteNetwork(w, l, fail) ==
  IF fail \/ ~CanDeleteNetwork(w, l.project)
  THEN Ret(w, Log([l EXCEPT !.pc = "RemoveProject", !.netFailed = TRUE,
                            !.faulted = @ \/ fail], "network"))
  ELSE Ret([w EXCEPT !.networks = @ \ {l.project}],
           Log([l EXCEPT !.pc = "RemoveProject"], "network"))

\* return o.Database.RemoveProject(project)
RemoveProject(w, l, fail) ==
  IF fail THEN Fail(w, l, "record", TRUE)
  ELSE Ret(RemoveProjectRecord(w, l.project), Log([l EXCEPT !.pc = "done"], "record"))

\* one call of a handler
Step(w, l, fail) ==
  CASE l.pc = "CreateNetworkIfNotExists" -> CreateNetworkIfNotExists(w, l, fail)
    [] l.pc = "RemoveUnusedRoutes" -> RemoveUnusedRoutes(w, l, fail)
    [] l.pc = "RemoveUnusedRoute" -> RemoveUnusedRoute(w, l, fail)
    [] l.pc = "RemoveUnusedContainers" -> RemoveUnusedContainers(w, l, fail)
    [] l.pc = "RemoveUnusedContainer" -> RemoveUnusedContainer(w, l, fail)
    [] l.pc = "FindContainer" -> FindContainer(w, l, fail)
    [] l.pc = "RemoveContainer" -> RemoveOldContainer(w, l, fail)
    [] l.pc = "StartContainer" -> StartExistingContainer(w, l, fail)
    [] l.pc = "CreateContainer" -> CreateContainer(w, l, fail)
    [] l.pc = "StartCreated" -> StartCreatedContainer(w, l, fail)
    [] l.pc = "RegisterRoute" -> RegisterRoute(w, l, fail)
    [] l.pc = "SaveIngressRoute" -> RegisterRouteSave(w, l, fail)
    [] l.pc = "SaveProject" -> ApplyProjectSave(w, l, fail)
    [] l.pc = "DeleteNetwork" -> DeleteNetwork(w, l, fail)
    [] l.pc = "RemoveProject" -> RemoveProject(w, l, fail)
    [] OTHER -> Ret(w, l)

RECURSIVE Run(_, _)
\* the handler run to its return with no call failing
Run(w, l) ==
  IF l.pc \in {"done", "idle"} THEN Ret(w, l)
  ELSE CHOOSE end \in {Run(r.w, r.l) : r \in {Step(w, l, FALSE)}} : TRUE
\* ------------------------------------------------- CertificateManager
\* types.AcmeChallenge, the value of the challenges bucket; "no record" is
\* the record with no token.  The ACME server names the token of a challenge
\* (one per obtain task here); the key authorization is the token joined to
\* the thumbprint of the account key.
AcmeChallenge(token, auth) == [Token |-> token, Auth |-> auth]
NoChallenge == AcmeChallenge("", "")
Token(id) == "tok" \o ToString(id)
KeyAuthorization(token) == token \o ".thumbprint"

\* the PEM bundle of a certificate: whether its first block decodes to an
\* x509 certificate, and the NotAfter of that certificate
Bundle(parses, notAfter) == [parses |-> parses, NotAfter |-> notAfter]

\* types.Certificate as far as the store keeps it; "no certificate" (nil) is
\* the certificate with no id
Certificate(id, domains, challenge, bundle) ==
  [ID |-> id, Domains |-> domains, ChallengeType |-> challenge,
   Certificate |-> bundle]
NoCertificate == Certificate(0, <<>>, "", Bundle(FALSE, 0))
NoCertificates == [bucket |-> {}, mapping |-> [d \in Domains |-> 0]]

\* Certificate.Parse: the first certificate of the bundle, or an error
Parse(cert) ==
  IF cert.Certificate.parses
  THEN [err |-> "", NotAfter |-> cert.Certificate.NotAfter]
  ELSE [err |-> "no PEM data found to decode", NotAfter |-> 0]

\* the certificate manager and its buckets
Manager(a, ch, ce, ta, n) ==
  [acme |-> a, challenges |-> ch, certificates |-> ce, tasks |-> ta, issued |-> n]

\* a background obtain task: the request it was given, and the domains whose
\* challenge it has presented and cleaned up
ObtainTask(id, domains, challenge) ==
  [ID |-> id, Domains |-> domains, ChallengeType |-> challenge,
   presented |-> {}, cleaned |-> {}]

\* bucket.Get([]byte(domain)); nil when there is no record
GetDomainChallenge(m, domain) ==
  IF domain \in Domains THEN m.challenges[domain] ELSE NoChallenge
\* bucket.Put([]byte(domain), {token, auth})
SetAcmeChallenge(m, domain, token, auth) ==
  [m EXCEPT !.challenges[domain] = AcmeChallenge(token, auth)]
\* variant: the record of the domain is deleted whatever it holds
RemoveAcmeChallengeAlways(m, domain, token, auth) ==
  [m EXCEPT !.challenges[domain] = NoChallenge]
\* delete the record of the domain when token and auth both match it
RemoveAcmeChallenge(m, domain, token, auth) ==
  LET challenge == m.challenges[domain]
  IN IF challenge # NoChallenge /\ challenge.Token = token /\ challenge.Auth = auth
     THEN [m EXCEPT !.challenges[domain] = NoChallenge]
     ELSE m
\* the certificate and one mapping entry per domain of it, in one transaction
SetCertificate(m, cert) ==
  [m EXCEPT !.certificates =
     [bucket |-> @.bucket \cup {cert},
      mapping |-> [d \in Domains |->
                     IF d \in Range(cert.Domains) THEN cert.ID ELSE @.mapping[d]]]]

\* the certificate the mapping of the domain refers to
GetCertificate(m, domain) ==
  LET id == IF domain \in Domains THEN m.certificates.mapping[domain] ELSE 0
      found == {c \in m.certificates.bucket : c.ID = id}
  IN IF id = 0 \/ found = {}
     THEN [cert |-> NoCertificate, err |-> "item not found"]
     ELSE [cert |-> CHOOSE c \in found : TRUE, err |-> ""]
\* whether a mapping refers to the certificate id
IsInUse(m, id) == \E d \in Domains : m.certificates.mapping[d] = id
\* variant: the certificate is deleted, mapped or not
RemoveCertificateUnchecked(m, id) ==
  [m |-> [m EXCEPT !.certificates.bucket = {c \in @ : c.ID # id}], err |-> ""]
\* delete the certificate by id; rejected while a mapping refers to it
RemoveCertificate(m, id) ==
  IF IsInUse(m, id) THEN [m |-> m, err |-> "certificate is in use"]
  ELSE [m |-> [m EXCEPT !.certificates.bucket = {c \in @ : c.ID # id}], err |-> ""]

\* the HTTP-01 provider the ACME client calls back
Present(m, domain, token, auth) == SetAcmeChallenge(m, domain, token, auth)
CleanUp(m, domain, token, auth) == RemoveAcmeChallenge(m, domain, token, auth)

\* variant: the token of the request is not compared
AuthorizeAnyToken(m, domain, token) ==
  LET challenge == GetDomainChallenge(m, domain)
  IN IF challenge = NoChallenge THEN [auth |-> "", err |-> "no challenge available"]
     ELSE [auth |-> challenge.Auth, err |-> ""]
\* CertificateManager.Authorize: the key authorization of the challenge of
\* the domain, when its token is the one given
Authorize(m, domain, token) ==
  LET challenge == GetDomainChallenge(m, domain)
  IN IF challenge = NoChallenge THEN [auth |-> "", err |-> "no challenge available"]
     ELSE IF challenge.Token # token THEN [auth |-> "", err |-> "invalid token"]
     ELSE [auth |-> challenge.Auth, err |-> ""]

\* CertificateManager.Get: the active certificate of the domain, or nil
Get(m, domain) == GetCertificate(m, domain).cert
\* CertificateManager.GetAll
GetAll(m) == m.certificates.bucket

RECURSIVE HasValidCertificateFrom(_, _, _, _)
\* the loop of HasValidCertificate from the i-th domain on
HasValidCertificateFrom(m, time, domains, i) ==
  IF i > Len(domains) THEN TRUE
  ELSE LET cert == Get(m, domains[i])
           info == Parse(cert)
       IN IF cert = NoCertificate THEN FALSE
          ELSE IF info.err # "" THEN FALSE
          ELSE IF time > info.NotAfter THEN FALSE
          ELSE HasValidCertificateFrom(m, time, domains, i + 1)

\* variant: only the first domain is looked at
HasValidCertificateFirst(m, time, domains) ==
  HasValidCertificateFrom(m, time, SubSeq(domains, 1, 1), 1)
\* variant: a certificate counts as expired from its NotAfter on
HasValidCertificateBefore(m, time, domains) ==
  \A i \in 1..Len(domains) :
     /\ Get(m, domains[i]) # NoCertificate
     /\ Parse(Get(m, domains[i])).err = ""
     /\ time < Parse(Get(m, domains[i])).NotAfter
\* CertificateManager.HasValidCertificate, called at the given time
HasValidCertificate(m, time, domains) ==
  HasValidCertificateFrom(m, time, domains, 1)

\* NewCertificateManger: without an email no ACME client is made
NewCertificateManger(m, email) == [m EXCEPT !.acme = (email # ""), !.tasks = {}]

\* variant: every listed domain is requested, challenge record or not
ObtainRequestAll(m, domains) == domains

\* the domains ChallengeCreate puts in the obtain request
ObtainRequest(m, domains) ==
  SelectSet(domains, {d \in Domains : GetDomainChallenge(m, d) = NoChallenge})

\* CertificateManager.ChallengeCreate up to its return: the manager after
\* it, the error, the domains requested and whether a task was started
ChallengeCreate(m, domains, challenge) ==
  LET none == [m |-> m, err |-> "", requested |-> <<>>, started |-> FALSE]
      req == ObtainRequest(m, domains)
  IN IF ~m.acme THEN [none EXCEPT !.err = "ACME email is not configured"]
     ELSE IF challenge = ChallengeTypeNone THEN none
     ELSE IF challenge # ChallengeTypeHTTP
     THEN [none EXCEPT !.err = "challenge type not supported"]
     ELSE IF Len(req) = 0 THEN none
     ELSE [m |-> [m EXCEPT !.tasks = @ \cup {ObtainTask(m.issued + 1, req, challenge)},
                           !.issued = @ + 1],
           err |-> "", requested |-> req, started |-> TRUE]

\* the renewal window of Batch (30 days) and the lifetime of the certificates
\* the ACME server issues, in units of the clock
RenewWindow == 1
Lifetime == RenewWindow + 1
\* the clock stops once a certificate issued at the start is expired
MaxTime == Lifetime + 1

\* variant: an expired certificate is removed, in use or not
BatchCertificateExpired(m, time, cert) ==
  LET info == Parse(cert)
      none == [m |-> m, err |-> "", requested |-> <<>>, started |-> FALSE]
  IN IF info.err # "" THEN none
     ELSE IF time > info.NotAfter
     THEN [none EXCEPT !.m = RemoveCertificateUnchecked(m, cert.ID).m]
     ELSE IF time + RenewWindow >= info.NotAfter
     THEN ChallengeCreate(m, cert.Domains, cert.ChallengeType)
     ELSE none
\* CertificateManager.Batch for one certificate of its sweep: a certificate
\* that is expired and no longer in use is removed; one whose NotAfter is
\* within the renewal window, or elapsed, is renewed with its recorded
\* challenge type and domain list
BatchCertificate(m, time, cert) ==
  LET info == Parse(cert)
      none == [m |-> m, err |-> "", requested |-> <<>>, started |-> FALSE]
  IN IF info.err # "" THEN none
     ELSE IF time > info.NotAfter /\ ~IsInUse(m, cert.ID)
     THEN [none EXCEPT !.m = RemoveCertificate(m, cert.ID).m]
     ELSE IF time + RenewWindow >= info.NotAfter
     THEN ChallengeCreate(m, cert.Domains, cert.ChallengeType)
     ELSE none

\* IngressManager.RegisterRoute once the route is saved: certificates are
\* requested for its domains unless every one of them has a valid one
RequestCertificates(m, time, domains, challenge) ==
  IF HasValidCertificate(m, time, domains)
  THEN [m |-> m, err |-> "", requested |-> <<>>, started |-> FALSE]
  ELSE ChallengeCreate(m, domains, challenge)

\* ------------------------------------------------------- the ACME account
\* the keys acme.email, acme.private_key, acme.registration and the directory
\* of the config bucket; "" and 0 are "no value".  Private keys and
\* registrations are numbered in the order they are made.
Config(email, key, reg, directory) ==
  [email |-> email, key |-> key, registration |-> reg, directory |-> directory]
NoConfig == Config("", 0, 0, "")

\* types.AcmeRegistration
AcmeRegistration(email, key, reg) ==
  [Email |-> email, PrivateKey |-> key, Registration |-> reg]
IsValid(u) == u.Registration # 0 /\ u.PrivateKey # 0 /\ u.Email # ""
\* CertificateManager.registration: the stored account
registration(c) == AcmeRegistration(c.email, c.key, c.registration)

\* variant: nothing is removed
ClearAcmeNothing(c) == c
\* Config.ClearAcme: email, registration and private key are removed
ClearAcme(c) == [c EXCEPT !.email = "", !.registration = 0, !.key = 0]

\* the locals of NewCertificateManger(email, directory) and of init: the
\* attempt of init that runs, the store as it was when the manager was
\* made, and the keys and registrations made so far
NotStarted ==
  [pc |-> "off", email |-> "", directory |-> "", isRetry |-> FALSE,
   user |-> AcmeRegistration("", 0, 0), attempts |-> 0, queries |-> 0,
   before |-> NoConfig, keys |-> 0, registrations |-> 0]

\* variant: the directory is not compared with the stored one
initUserSameDirectory(c, b) ==
  LET user == registration(c)
      rotate == user.Email # b.email \/ ~IsValid(user)
      u == IF rotate THEN AcmeRegistration(b.email, b.keys + 1, 0) ELSE user
  IN [b EXCEPT !.user = u,
               !.keys = IF rotate THEN @ + 1 ELSE @,
               !.pc = IF u.Registration = 0 THEN "Register" ELSE "QueryRegistration"]
\* init up to the ACME client: the stored account is used unless the email
\* or the directory differ or it is not valid; then a key is generated
initUser(c, b) ==
  LET user == registration(c)
      rotate == user.Email # b.email \/ ~IsValid(user) \/ b.directory # c.directory
      u == IF rotate THEN AcmeRegistration(b.email, b.keys + 1, 0) ELSE user
  IN [b EXCEPT !.user = u,
               !.keys = IF rotate THEN @ + 1 ELSE @,
               !.pc = IF u.Registration = 0 THEN "Register" ELSE "QueryRegistration"]

\* one step of init: the store and the locals after it.  A failed Register
\* is fatal, a failed write of the store panics ("exit"); a failed
\* QueryRegistration clears the stored account and init is called once more,
\* and on a retry it runs into the nil registration and panics
initStep(c, b, ok) ==
  LET exit == [c |-> c, b |-> [b EXCEPT !.pc = "exit"]]
  IN CASE b.pc = "init" -> [c |-> c, b |-> initUser(c, b)]
       [] b.pc = "Register" ->
            IF ok THEN [c |-> c,
                        b |-> [b EXCEPT !.user.Registration = b.registrations + 1,
                                        !.registrations = @ + 1,
                                        !.pc = "SetAcmeEmail"]]
            ELSE exit
       [] b.pc = "SetAcmeEmail" ->
            IF ok THEN [c |-> [c EXCEPT !.email = b.user.Email],
                        b |-> [b EXCEPT !.pc = "SetAcmePrivateKey"]]
            ELSE exit
       [] b.pc = "SetAcmePrivateKey" ->
            IF ok THEN [c |-> [c EXCEPT !.key = b.user.PrivateKey],
                        b |-> [b EXCEPT !.pc = "SetAcmeRegistration"]]
            ELSE exit
       [] b.pc = "SetAcmeRegistration" ->
            IF ok THEN [c |-> [c EXCEPT !.registration = b.user.Registration],
                        b |-> [b EXCEPT !.pc = "SetAcmeDirectory"]]
            ELSE exit
       [] b.pc = "SetAcmeDirectory" ->
            IF ok THEN [c |-> [c EXCEPT !.directory = b.directory],
                        b |-> [b EXCEPT !.pc = "done"]]
            ELSE exit
       [] b.pc = "QueryRegistration" ->
            [c |-> c, b |-> [b EXCEPT !.queries = @ + 1,
                                      !.pc = IF ok THEN "done" ELSE "ClearAcme"]]
       [] b.pc = "ClearAcme" ->
            IF ~b.isRetry
            THEN [c |-> ClearAcme(c),
                  b |-> [b EXCEPT !.pc = "init", !.isRetry = TRUE, !.attempts = @ + 1]]
            ELSE [c |-> ClearAcme(c), b |-> [b EXCEPT !.pc = "exit"]]
       [] OTHER -> [c |-> c, b |-> b]

\* ------------------------------------------------------------- the proxy
\* A host, a path and a query are strings in segments: a host is its name,
\* followed by ":" and a port when it has one; a path is its prefix followed
\* by the rest of it.
AcmePrefix == "/.well-known/acme-challenge/"

\* ExtractDomain: the host without its port
ExtractDomain(host) ==
  LET idx == Index(host, ":")
  IN IF idx # 0 THEN SubSeq(host, 1, idx - 1) ELSE host

\* variant: the URI is dropped
RewriteToHTTPSHostOnly(host, uri) == <<"https://">> \o host
\* RewriteToHTTPS: "https://" + host + uri
RewriteToHTTPS(host, uri) == <<"https://">> \o host \o uri

\* http.Request as the proxy reads it, and the response it writes; forwarded
\* is the endpoint the request was proxied to (0: not proxied)
Request(tls, host, path, query) ==
  [TLS |-> tls, Host |-> host, Path |-> path, Query |-> query]
RequestURI(r) == r.Path \o r.Query
Response(status, location, body, forwarded) ==
  [status |-> status, location |-> location, body |-> body, forwarded |-> forwarded]

\* a tls.Certificate: the stored certificate it was loaded from (0 when it
\* was generated), and the name a generated one is made out to
TLSCertificate(id, commonName) == [ID |-> id, CommonName |-> commonName]
NoTLSCertificate == TLSCertificate(0, "")

\* Certificate.X509KeyPair: tls.X509KeyPair on the decoded bundle and key,
\* which fails when the bundle holds no certificate
X509KeyPair(cert) ==
  IF cert.Certificate.parses THEN [err |-> "", cert |-> TLSCertificate(cert.ID, "")]
  ELSE [err |-> "tls: failed to find any PEM data in certificate input",
        cert |-> NoTLSCertificate]

\* generateSelfSignedCertificate: a certificate for the domain, signed with
\* its own fresh key
generateSelfSignedCertificate(domain) ==
  [err |-> "", cert |-> TLSCertificate(0, domain)]

\* variant: no certificate is generated when none is stored
getCertificateStoredOnly(m, serverName) ==
  IF serverName = "" \/ Get(m, serverName) = NoCertificate
  THEN [err |-> "no mappings available without a domain", cert |-> NoTLSCertificate]
  ELSE X509KeyPair(Get(m, serverName))

\* Server.getCertificate, the GetCertificate callback of the TLS listener
getCertificate(m, serverName) ==
  IF serverName = ""
  THEN [err |-> "no mappings available without a domain", cert |-> NoTLSCertificate]
  ELSE IF Get(m, serverName) = NoCertificate
  THEN generateSelfSignedCertificate(serverName)
  ELSE X509KeyPair(Get(m, serverName))

\* IngressManager.Match: the route of the domain, if any
Match(w, domain) == IF domain \in Domains THEN w.routes[domain] ELSE NoRoute

IsAcmeChallenge(r) == HasPrefix(r.Path, AcmePrefix)

\* Server.HandleAcmeChallenge
HandleAcmeChallenge(m, r) ==
  LET token == Str(TrimPrefix(r.Path, AcmePrefix))
      host == Str(ExtractDomain(r.Host))
      a == Authorize(m, host, token)
  IN IF a.err # "" THEN Response(404, <<>>, "", 0)
     ELSE Response(200, <<>>, a.auth, 0)

\* Server.ServeHTTP; a proxied request is answered by the backend when a
\* running container is bound to the endpoint, and with 503 otherwise
ServeHTTP(w, m, r) ==
  IF IsAcmeChallenge(r) THEN HandleAcmeChallenge(m, r)
  ELSE IF ~r.TLS
  THEN Response(301, RewriteToHTTPS(r.Host, RequestURI(r)), "", 0)
  ELSE LET host == Str(ExtractDomain(r.Host))
           route == Match(w, host)
       IN IF route = NoRoute THEN Response(404, <<>>, "", 0)
          ELSE IF route.Endpoint \in BoundPorts(w)
          THEN Response(200, <<>>, "backend", route.Endpoint)
          ELSE Response(503, <<>>, "", route.Endpoint)

\* ------------------------------------------------------ the management API
\* Mux.error: whatever the error of a handler is, the status is 500 and the
\* body the text of the error
MuxError(err) == [status |-> 500, body |-> err]
\* Mux.wrap around Server.HandleProjectApply, given the locals ApplyProject
\* returned with: 201 and the services applied, or the error
HandleProjectApply(l) ==
  IF l.err # "" THEN MuxError(l.err) ELSE [status |-> 201, body |-> "services"]

\* ------------------------------------------------------------------ state
\* ------------------------------------------------------------ the process
\* the listeners run starts: the management API and the two proxies
Listeners == {"management", "http", "https"}

\* an http.Server: it accepts while it serves; Shutdown closes its listeners
\* at once ("shutdown") and returns when no request is in flight ("closed").
\* returned: ListenAndServe has returned; inflight: the requests in service
HTTPServer(state, returned, inflight) ==
  [state |-> state, returned |-> returned, inflight |-> inflight]

\* run, once its listeners serve: the root context is not cancelled, the
\* store is open and the process lives
Started ==
  [cancelled |-> FALSE, closed |-> FALSE, exited |-> FALSE,
   servers |-> [l \in Listeners |-> HTTPServer("serving", FALSE, 0)]]

VARIABLES
  containers,   \* the containers of the docker daemon, by name
  routes,       \* bucket "routes"
  projects,     \* bucket "projects"
  networks,     \* the docker networks, by project
  loc,          \* the locals of each handler
  faults,       \* failed calls and container exits so far
  acme,         \* CertificateManager.acme # nil
  challenges,   \* bucket "challenges"
  certificates, \* bucket "certificates" and the domain -> certificate id mapping
  tasks,        \* the background obtain tasks in flight
  issued,       \* obtain tasks started so far (the next task takes the next id)
  now,          \* the wall clock
  config,       \* bucket "config": the stored ACME account
  boot,         \* the locals of NewCertificateManger and init
  proc,         \* the process: its listeners, the root context and the store handle
  last,         \* what the last call of the certificate manager was given and returned
  served,       \* the request the proxy is serving and its response
  checked       \* the call whose result the caller has not taken yet: what it
                \* was given and returned

reconcilerVars == <<containers, routes, projects, networks, loc, faults>>
certVars == <<acme, challenges, certificates, tasks, issued, now, last, config, boot, proc>>
vars == <<containers, routes, projects, networks, loc, faults,
          acme, challenges, certificates, tasks, issued, now, last, served, checked,
          config, boot, proc>>

\* the requests the management API is given
Svc(name, uri, domains, port) ==
  ServiceOptions(name, "docker", uri, domains, port, ChallengeTypeHTTP, 0)
D1 == <<DomainOrder[1]>>
D2 == <<DomainOrder[2]>>
ValidRequests ==
  { ApplyProjectOptions("p1", <<Svc("s1", "img:1", D1, 80)>>),
    ApplyProjectOptions("p1", <<Svc("s1", "img:2", D1, 80)>>),
    ApplyProjectOptions("p1", <<Svc("s1", "img:1", D1, 80), Svc("s1", "img:2", D1, 80)>>),
    ApplyProjectOptions("p1", <<Svc("s1", "img:1", D1, 80), Svc("s2", "img:1", D1, 80)>>),
    ApplyProjectOptions("p2", <<Svc("s1", "img:1", D1, 80)>>) }
InvalidRequests ==
  { ApplyProjectOptions("p1", <<>>),
    ApplyProjectOptions("p1", <<ServiceOptions("s1", "git", "repo", <<>>, 0, ChallengeTypeNone, 64)>>) }
Requests == ValidRequests \cup InvalidRequests

\* the world as handler t sees it
W(t) ==
  World(containers, routes, projects, networks,
        UNION {{loc[u].container.ID}
                 \cup {loc[u].containersTodo[k].ID : k \in 1..Len(loc[u].containersTodo)}
               : u \in Threads \ {t}})

\* a world without the container ids (two runs name their containers apart)
Norm(w) ==
  [containers |-> [n \in ContainerNames |-> [w.containers[n] EXCEPT !.ID = 0]],
   routes |-> w.routes, projects |-> w.projects, networks |-> w.networks]

\* no call of the certificate manager yet
NoCall ==
  [op |-> "", called |-> FALSE, acme |-> FALSE, domains |-> <<>>, challenge |-> "", had |-> {},
   err |-> "", requested |-> <<>>, started |-> FALSE, changed |-> FALSE]

\* no request served
NoRequest == [called |-> FALSE]
\* no function called
NoCheck == [op |-> ""]

FaultChoices == IF faults < MaxFaults THEN {FALSE, TRUE} ELSE {FALSE}

Do(t, r, fail) ==
  /\ containers' = r.w.containers
  /\ routes' = r.w.routes
  /\ projects' = r.w.projects
  /\ networks' = r.w.networks
  /\ loc' = [loc EXCEPT ![t] = r.l]
  /\ faults' = IF fail THEN faults + 1 ELSE faults
  /\ served' = NoRequest
  /\ UNCHANGED checked
  /\ UNCHANGED certVars

Init ==
  /\ containers = [n \in ContainerNames |-> NoContainer]
  /\ routes = [d \in Domains |-> NoRoute]
  /\ projects = [p \in Projects |-> <<>>]
  /\ networks = {}
  /\ loc = [t \in Threads |-> Idle]
  /\ faults = 0
  /\ acme = TRUE
  /\ challenges = [d \in Domains |-> NoChallenge]
  /\ certificates = NoCertificates
  /\ tasks = {}
  /\ issued = 0
  /\ now = 0
  /\ config = NoConfig
  /\ boot = NotStarted
  /\ proc = Started
  /\ last = NoCall
  /\ served = NoRequest
  /\ checked = NoCheck

\* POST /api/projects: Container.ApplyProject(opts) is called
ApplyProject(t, opts) ==
  /\ \A u \in Threads : loc[u].pc = "idle"
  /\ Do(t, BeginApplyProject(W(t), loc[t], opts), FALSE)

\* the caller applies the request it has just applied once more, whether the
\* call succeeded (again) or an injected failure aborted it (retry; ref is
\* what the aborted call would have reached with no failure)
ApplyProjectAgain(t) ==
  /\ loc[t].pc = "done"
  /\ loc[t].op = "apply"
  /\ loc[t].err \notin {"validation", "image"}
  /\ LET r == BeginApplyProject(W(t), Idle, loc[t].opts)
         again == loc[t].err = ""
         retry == loc[t].err # "" /\ loc[t].ref # <<>>
     IN Do(t, [r EXCEPT !.l.again = again, !.l.retry = retry,
                        !.l.ref = IF retry THEN loc[t].ref ELSE <<>>], FALSE)

\* DELETE /api/projects/{name}
ProjectDelete(t, name) ==
  /\ \A u \in Threads : loc[u].pc = "idle"
  /\ Do(t, HandleProjectDelete(W(t), loc[t], name), FALSE)

\* the reference of a call in which a failure is injected: the world and the
\* error that the call reaches from here when no call fails
Reference(w, l) ==
  LET r == Run(w, l) IN [w |-> Norm(r.w), err |-> r.l.err]

\* a runtime or store call of handler t
Call(t, pc, fail) ==
  /\ loc[t].pc = pc
  /\ LET r == Step(W(t), loc[t], fail)
     IN Do(t, IF fail /\ ~loc[t].faulted /\ ~loc[t].retry
              THEN [r EXCEPT !.l.ref = Reference(W(t), loc[t])]
              ELSE r, fail)

DoCreateNetwork(t) == \E fail \in FaultChoices : Call(t, "CreateNetworkIfNotExists", fail)
DoRemoveUnusedRoutes(t) == Call(t, "RemoveUnusedRoutes", FALSE)
DoRemoveUnusedRoute(t) == \E fail \in FaultChoices : Call(t, "RemoveUnusedRoute", fail)
DoRemoveUnusedContainers(t) == \E fail \in FaultChoices : Call(t, "RemoveUnusedContainers", fail)
DoRemoveUnusedContainer(t) == \E fail \in FaultChoices : Call(t, "RemoveUnusedContainer", fail)
DoFindContainer(t) == \E fail \in FaultChoices : Call(t, "FindContainer", fail)
DoRemoveContainer(t) == \E fail \in FaultChoices : Call(t, "RemoveContainer", fail)
DoStartContainer(t) == \E fail \in FaultChoices : Call(t, "StartContainer", fail)
DoCreateContainer(t) == \E fail \in FaultChoices : Call(t, "CreateContainer", fail)
DoStartCreated(t) == \E fail \in FaultChoices : Call(t, "StartCreated", fail)
DoRegisterRoute(t) == Call(t, "RegisterRoute", FALSE)
DoSaveIngressRoute(t) == \E fail \in FaultChoices : Call(t, "SaveIngressRoute", fail)
DoSaveProject(t) == \E fail \in FaultChoices : Call(t, "SaveProject", fail)
DoDeleteNetwork(t) == \E fail \in FaultChoices : Call(t, "DeleteNetwork", fail)
DoRemoveProject(t) == \E fail \in FaultChoices : Call(t, "RemoveProject", fail)

\* the handler returns
Return(t) ==
  /\ loc[t].pc = "done"
  /\ loc' = [loc EXCEPT ![t] = Idle]
  /\ UNCHANGED <<containers, routes, projects, networks, faults>>
  /\ served' = NoRequest
  /\ UNCHANGED checked
  /\ UNCHANGED certVars

\* outside the program, between two calls: a running container exits or is stopped
ContainerStops(n) ==
  /\ \A u \in Threads : loc[u].pc = "idle"
  /\ IsRunning(containers[n])
  /\ faults < MaxFaults
  /\ faults' = faults + 1
  /\ containers' = [containers EXCEPT ![n].State = "exited"]
  /\ UNCHANGED <<routes, projects, networks, loc>>
  /\ served' = NoRequest
  /\ UNCHANGED checked
  /\ UNCHANGED certVars

Next ==
  \/ \E t \in Serial, opts \in Requests : ApplyProject(t, opts)
  \/ \E t \in Serial : ApplyProjectAgain(t)
  \/ \E t \in Serial, name \in Projects : ProjectDelete(t, name)
  \/ \E t \in Threads : DoCreateNetwork(t)
  \/ \E t \in Threads : DoRemoveUnusedRoutes(t)
  \/ \E t \in Threads : DoRemoveUnusedRoute(t)
  \/ \E t \in Threads : DoRemoveUnusedContainers(t)
  \/ \E t \in Threads : DoRemoveUnusedContainer(t)
  \/ \E t \in Threads : DoFindContainer(t)
  \/ \E t \in Threads : DoRemoveContainer(t)
  \/ \E t \in Threads : DoStartContainer(t)
  \/ \E t \in Threads : DoCreateContainer(t)
  \/ \E t \in Threads : DoStartCreated(t)
  \/ \E t \in Threads : DoRegisterRoute(t)
  \/ \E t \in Threads : DoSaveIngressRoute(t)
  \/ \E t \in Threads : DoSaveProject(t)
  \/ \E t \in Threads : DoDeleteNetwork(t)
  \/ \E t \in Threads : DoRemoveProject(t)
  \/ \E t \in Threads : Return(t)
  \/ \E n \in ContainerNames : ContainerStops(n)

Spec == Init /\ [][Next]_vars

\* the requests two goroutines apply at the same time: one service each, of
\* the same project (with the same or another image) or of different
\* projects, on the same domain
ConcurrentRequests == {r \in ValidRequests : Len(r.Services) = 1}

\* POST /api/projects while another request may be in progress
ApplyProjectConcurrently(t, opts) ==
  /\ loc[t].pc = "idle"
  /\ Do(t, BeginApplyProject(W(t), loc[t], opts), FALSE)

\* the next runtime or store call of handler t, which succeeds
HandlerStep(t) ==
  /\ loc[t].pc \notin {"idle", "done"}
  /\ Do(t, Step(W(t), loc[t], FALSE), FALSE)

NextConcurrent ==
  \/ \E t \in Threads, opts \in ConcurrentRequests : ApplyProjectConcurrently(t, opts)
  \/ \E t \in Threads : HandlerStep(t)
  \/ \E t \in Threads : Return(t)

SpecConcurrent == Init /\ [][NextConcurrent]_vars

\* two goroutines apply one project at the same time, each with a service
\* the other request does not list, or with the same one
SameProjectRequests ==
  { ApplyProjectOptions("p1", <<Svc("s1", "img:1", D1, 80)>>),
    ApplyProjectOptions("p1", <<Svc("s2", "img:1", D2, 80)>>) }

NextSameProject ==
  \/ \E t \in Threads, opts \in SameProjectRequests : ApplyProjectConcurrently(t, opts)
  \/ \E t \in Threads : HandlerStep(t)
  \/ \E t \in Threads : Return(t)

SpecSameProject == Init /\ [][NextSameProject]_vars

\* ------------------------------------------------------ pruning of routes
\* requests that make a project give up a domain while it keeps another, and
\* two projects hold routes at once
RouteRequests ==
  { ApplyProjectOptions("p1", <<Svc("s1", "img:1", DomainOrder, 80)>>),
    ApplyProjectOptions("p1", <<Svc("s1", "img:1", D1, 80)>>),
    ApplyProjectOptions("p1", <<Svc("s1", "img:1", D2, 80)>>),
    ApplyProjectOptions("p2", <<Svc("s1", "img:1", D1, 80)>>),
    ApplyProjectOptions("p2", <<Svc("s1", "img:1", D2, 80)>>) }

NextRoutes ==
  \/ \E opts \in RouteRequests : ApplyProject("t1", opts)
  \/ \E name \in Projects : ProjectDelete("t1", name)
  \/ HandlerStep("t1")
  \/ Return("t1")
  \/ \E n \in ContainerNames : ContainerStops(n)

SpecRoutes == Init /\ [][NextRoutes]_vars

\* ------------------------------------------------------- the memory quota
\* requests whose services set a memory quota or leave it out
MemoryLimits == {0, 128, 256, 2047}
QuotaRequests ==
  {ApplyProjectOptions("p1",
     <<ServiceOptions("s1", "docker", "img:1", D1, 80, ChallengeTypeHTTP, m1),
       ServiceOptions("s2", "docker", "img:1", D2, 80, ChallengeTypeHTTP, m2)>>) :
     m1 \in MemoryLimits, m2 \in MemoryLimits}

NextQuota ==
  \/ \E opts \in QuotaRequests : ApplyProject("t1", opts)
  \/ HandlerStep("t1")
  \/ Return("t1")

SpecQuota == Init /\ [][NextQuota]_vars

\* ------------------------------------------------ the certificate manager
M == Manager(acme, challenges, certificates, tasks, issued)

DoCert(m) ==
  /\ checked = NoCheck
  /\ acme' = m.acme
  /\ challenges' = m.challenges
  /\ certificates' = m.certificates
  /\ tasks' = m.tasks
  /\ issued' = m.issued
  /\ served' = NoRequest
  /\ UNCHANGED <<now, checked, config, boot, proc>>
  /\ UNCHANGED reconcilerVars

\* the domain lists and challenge types ChallengeCreate is called with
DomainLists == {<<DomainOrder[1]>>, <<DomainOrder[2]>>, DomainOrder}
ChallengeTypes == {ChallengeTypeHTTP, ChallengeTypeNone, ChallengeTypeDNS}
Emails == {"", "admin@conter.test"}

\* a caller (the renew endpoint, route registration) calls ChallengeCreate
DoChallengeCreate(domains, challenge) ==
  /\ issued < MaxTasks
  /\ LET r == ChallengeCreate(M, domains, challenge)
     IN /\ DoCert(r.m)
        /\ last' = [op |-> "ChallengeCreate", called |-> TRUE, acme |-> acme, domains |-> domains,
                    challenge |-> challenge,
                    had |-> {d \in Range(domains) : challenges[d] # NoChallenge},
                    err |-> r.err, requested |-> r.requested, started |-> r.started,
                    changed |-> (r.m.challenges # challenges
                                   \/ r.m.certificates # certificates)]

\* c.acme.Certificate.Obtain(req) in the background task: the ACME client
\* presents the challenge of a domain of the request ...
ObtainPresent(task, d) ==
  /\ task \in tasks
  /\ d \in Range(task.Domains) \ task.presented
  /\ LET m == Present(M, d, Token(task.ID), KeyAuthorization(Token(task.ID)))
     IN DoCert([m EXCEPT !.tasks = (@ \ {task})
                           \cup {[task EXCEPT !.presented = @ \cup {d}]}])
  /\ UNCHANGED last

\* ... and cleans it up once the authorization is decided
ObtainCleanUp(task, d) ==
  /\ task \in tasks
  /\ d \in task.presented \ task.cleaned
  /\ LET m == CleanUp(M, d, Token(task.ID), KeyAuthorization(Token(task.ID)))
     IN /\ DoCert([m EXCEPT !.tasks = (@ \ {task})
                              \cup {[task EXCEPT !.cleaned = @ \cup {d}]}])
        /\ last' = [op |-> "CleanUp", called |-> FALSE, domain |-> d,
                    token |-> Token(task.ID),
                    auth |-> KeyAuthorization(Token(task.ID)),
                    before |-> challenges, after |-> m.challenges, err |-> ""]

\* the bundles Obtain may return at the given time
Bundles(time) == {Bundle(TRUE, time + Lifetime), Bundle(FALSE, 0)}

\* Obtain returns the certificate: it is stored under a fresh id.  A bundle
\* that does not parse is a fault of the ACME server.
ObtainSucceeds(task, bundle) ==
  /\ task \in tasks
  /\ task.cleaned = Range(task.Domains)
  /\ checked = NoCheck
  /\ ~bundle.parses => faults < MaxFaults
  /\ LET cert == Certificate(task.ID, task.Domains, task.ChallengeType, bundle)
         m == SetCertificate(M, cert)
     IN /\ acme' = m.acme
        /\ challenges' = m.challenges
        /\ certificates' = m.certificates
        /\ tasks' = m.tasks \ {task}
        /\ issued' = m.issued
  /\ faults' = IF bundle.parses THEN faults ELSE faults + 1
  /\ served' = NoRequest
  /\ UNCHANGED <<containers, routes, projects, networks, loc, now, last, checked,
               config, boot, proc>>

\* Obtain returns an error: it is logged and the task ends
ObtainFails(task) ==
  /\ task \in tasks
  /\ task.cleaned = task.presented
  /\ DoCert([M EXCEPT !.tasks = @ \ {task}])
  /\ UNCHANGED last

\* the daemon is stopped and started again, with or without an ACME email
Restart(email) ==
  /\ DoCert(NewCertificateManger(M, email))
  /\ last' = NoCall

NextCert ==
  \/ \E domains \in DomainLists, challenge \in ChallengeTypes :
       DoChallengeCreate(domains, challenge)
  \/ \E task \in tasks, d \in Domains : ObtainPresent(task, d)
  \/ \E task \in tasks, d \in Domains : ObtainCleanUp(task, d)
  \/ \E task \in tasks, bundle \in Bundles(now) : ObtainSucceeds(task, bundle)
  \/ \E task \in tasks : ObtainFails(task)
  \/ \E email \in Emails : Restart(email)

SpecCert == Init /\ [][NextCert]_vars

\* ---------------------------------------------------- the certificate store
\* the caller has the result
Checked ==
  /\ checked # NoCheck
  /\ checked' = NoCheck
  /\ UNCHANGED reconcilerVars
  /\ UNCHANGED certVars
  /\ UNCHANGED served

\* a call of the certificate manager that is taken at one instant, which
\* lasts until the caller has the result
CallCert(m, result) ==
  /\ checked = NoCheck
  /\ acme' = m.acme
  /\ challenges' = m.challenges
  /\ certificates' = m.certificates
  /\ tasks' = m.tasks
  /\ issued' = m.issued
  /\ checked' = result
  /\ UNCHANGED <<now, last, served, config, boot, proc>>
  /\ UNCHANGED reconcilerVars

\* time passes; the unit of the clock is the renewal window, and an obtain
\* task ends within it, on the timeouts of the ACME client
Tick ==
  /\ checked = NoCheck
  /\ tasks = {}
  /\ now < MaxTime
  /\ now' = now + 1
  /\ served' = NoRequest
  /\ UNCHANGED <<acme, challenges, certificates, tasks, issued, last, checked,
               config, boot, proc>>
  /\ UNCHANGED reconcilerVars

\* the system task runs Batch: one certificate of the sweep
DoBatch(cert) ==
  /\ cert \in GetAll(M)
  /\ LET r == BatchCertificate(M, now, cert)
     IN /\ r.started => issued < MaxTasks
        /\ CallCert(r.m, [op |-> "Batch", id |-> cert.ID, started |-> r.started])

\* a certificate is deleted by id
DoRemoveCertificate(id) ==
  /\ \E c \in certificates.bucket : c.ID = id
  /\ LET r == RemoveCertificate(M, id)
     IN CallCert(r.m, [op |-> "RemoveCertificate", id |-> id, err |-> r.err])

\* a route with the domains is registered (again)
DoRequestCertificates(domains, challenge) ==
  LET r == RequestCertificates(M, now, domains, challenge)
  IN /\ r.started => issued < MaxTasks
     /\ CallCert(r.m, [op |-> "RegisterRoute", domains |-> domains,
                        started |-> r.started])

\* HasValidCertificate is called
DoHasValidCertificate(domains) ==
  CallCert(M, [op |-> "HasValidCertificate", domains |-> domains,
               valid |-> HasValidCertificate(M, now, domains)])

\* the domain lists of the routes that are registered
RouteDomains == {<<DomainOrder[1]>>, DomainOrder}

\* the certificate store at work: certificates are requested when routes are
\* registered, obtained over HTTP-01, renewed and swept by Batch and deleted
\* by id, while time passes
NextStore ==
  \/ \E domains \in RouteDomains : DoRequestCertificates(domains, ChallengeTypeHTTP)
  \/ \E task \in tasks, d \in Domains : ObtainPresent(task, d)
  \/ \E task \in tasks, d \in Domains : ObtainCleanUp(task, d)
  \/ \E task \in tasks, bundle \in Bundles(now) : ObtainSucceeds(task, bundle)
  \/ \E task \in tasks : ObtainFails(task)
  \/ \E cert \in certificates.bucket : DoBatch(cert)
  \/ \E id \in 1..MaxTasks : DoRemoveCertificate(id)
  \/ \E domains \in RouteDomains : DoHasValidCertificate(domains)
  \/ Checked
  \/ Tick

SpecStore == Init /\ [][NextStore]_vars

\* ---------------------------------------------------------------- the proxy
\* the requests the listeners are given
Hosts == {<<DomainOrder[1]>>, <<DomainOrder[1], ":", "8080">>, <<"other.test">>}
Paths ==
  {<<"/path">>, <<AcmePrefix>>, <<AcmePrefix, Token(1)>>, <<AcmePrefix, Token(1), "/x">>}
Queries == {<<"?q=1">>}
ProxyRequests ==
  {Request(tls, host, path, query) :
     tls \in BOOLEAN, host \in Hosts, path \in Paths, query \in Queries}

\* the project whose routes the proxy serves in SpecProxy
ProxiedRequests ==
  {r \in ConcurrentRequests :
     r.ProjectName = "p1" /\ r.Services[1].Source.URI = "img:1"}

\* a request arrives at the HTTP or the HTTPS listener and is answered
DoServeHTTP(r) ==
  /\ ~served.called
  /\ served' = [called |-> TRUE, request |-> r,
                response |-> ServeHTTP(W("t1"), M, r)]
  /\ UNCHANGED reconcilerVars
  /\ UNCHANGED certVars
  /\ UNCHANGED checked

\* the response is written and the handler returns
Served ==
  /\ served.called
  /\ served' = NoRequest
  /\ UNCHANGED reconcilerVars
  /\ UNCHANGED certVars
  /\ UNCHANGED checked

\* the proxy at work while a project is applied or deleted and while
\* certificates are obtained over HTTP-01
NextProxy ==
  \/ \E r \in ProxyRequests : DoServeHTTP(r)
  \/ Served
  \/ \E opts \in ProxiedRequests : ApplyProject("t1", opts)
  \/ \E name \in Projects : ProjectDelete("t1", name)
  \/ HandlerStep("t1")
  \/ Return("t1")
  \/ \E n \in ContainerNames : ContainerStops(n)
  \/ DoChallengeCreate(D1, ChallengeTypeHTTP)
  \/ \E task \in tasks, d \in Domains : ObtainPresent(task, d)
  \/ \E task \in tasks, d \in Domains : ObtainCleanUp(task, d)
  \/ \E task \in tasks : ObtainFails(task)

SpecProxy == Init /\ [][NextProxy]_vars

\* ------------------------------------------------- ACME account at start
\* the emails and directories the daemon is configured with
AcmeEmails == {"admin@conter.test", "ops@conter.test"}
Directories == {"https://acme.test/directory", "https://staging.test/directory"}

\* the daemon is started: NewCertificateManger with an email calls init
DoNewCertificateManger(email, directory) ==
  /\ boot.pc \in {"off", "done", "exit"}
  /\ boot' = [NotStarted EXCEPT !.pc = "init", !.email = email,
                                !.directory = directory, !.attempts = 1,
                                !.before = config, !.keys = boot.keys,
                                !.registrations = boot.registrations]
  /\ acme' = FALSE
  /\ tasks' = {}
  /\ UNCHANGED <<challenges, certificates, issued, now, last, config, served, checked, proc>>
  /\ UNCHANGED reconcilerVars

\* init takes a step; Register and the writes of the store may fail, within
\* the budget of faults, and the ACME server answers QueryRegistration as it
\* likes
DoInitStep(ok) ==
  /\ boot.pc \notin {"off", "done", "exit"}
  /\ ~ok => boot.pc \in {"Register", "SetAcmeEmail", "SetAcmePrivateKey",
                         "SetAcmeRegistration", "SetAcmeDirectory",
                         "QueryRegistration"}
  /\ (~ok /\ boot.pc # "QueryRegistration") => faults < MaxFaults
  /\ boot.pc = "init" => initUser(config, boot).keys <= MaxAccounts
  /\ LET r == initStep(config, boot, ok)
     IN /\ config' = r.c
        /\ boot' = r.b
        /\ acme' = (r.b.pc = "done")
  /\ faults' = IF ~ok /\ boot.pc # "QueryRegistration" THEN faults + 1 ELSE faults
  /\ UNCHANGED <<challenges, certificates, tasks, issued, now, last, served, checked, proc>>
  /\ UNCHANGED <<containers, routes, projects, networks, loc>>

NextAcme ==
  \/ \E email \in AcmeEmails, directory \in Directories :
       DoNewCertificateManger(email, directory)
  \/ \E ok \in BOOLEAN : DoInitStep(ok)

SpecAcme == Init /\ [][NextAcme]_vars

\* ------------------------------------------------------ the configuration hash
\* a call that changes nothing and hands its result to its caller
CallPure(result) ==
  /\ checked = NoCheck
  /\ checked' = result
  /\ UNCHANGED reconcilerVars
  /\ UNCHANGED certVars
  /\ UNCHANGED served

\* the services whose hash is taken: every component of the hash in more than
\* one value, the maps also nil and empty, under two names
HashMaps ==
  {NilMap, EmptyMap, GoMap(FALSE, {<<"A", "1">>}), GoMap(FALSE, {<<"A", "2">>}),
   GoMap(FALSE, {<<"A", "1">>, <<"B", "1">>})}
HashVolumes == {<<>>, <<Volume(<<"data">>, <<"/", "data">>)>>}
HashedServices ==
  {Materialize("p1",
     [ServiceOptions(name, type, uri, <<>>, port, ChallengeTypeNone, memory)
        EXCEPT !.Source.Opts = opts, !.Environment = env, !.Volumes = volumes]) :
     name \in {"s1", "s2"}, type \in {"docker", "git"}, uri \in {"img:1", "img:2"},
     opts \in {NilMap, EmptyMap}, env \in HashMaps, port \in {0, 80},
     memory \in {0, 128}, volumes \in HashVolumes}

\* hash := CalculateHash(&a) and hash := CalculateHash(&b), of two services or
\* of one service twice
DoCalculateHash(a, b) ==
  CallPure([op |-> "CalculateHash", a |-> a, b |-> b,
            ha |-> CalculateHash(a), hb |-> CalculateHash(b)])

NextHash ==
  \/ /\ checked = NoCheck
     /\ \E a \in HashedServices, b \in HashedServices : DoCalculateHash(a, b)
  \/ Checked

SpecHash == Init /\ [][NextHash]_vars

\* ------------------------------------------------------- the TLS handshake
\* the server names of the handshakes: none, the domains and another name
ServerNames == {"", "other.test"} \cup Domains

\* a TLS client says hello with the server name
DoGetCertificate(serverName) ==
  CallPure([op |-> "getCertificate", serverName |-> serverName,
            stored |-> Get(M, serverName),
            err |-> getCertificate(M, serverName).err,
            cert |-> getCertificate(M, serverName).cert])

\* certificates are obtained and stored while clients connect
NextTLS ==
  \/ \E domains \in DomainLists : DoChallengeCreate(domains, ChallengeTypeHTTP)
  \/ \E task \in tasks, d \in Domains : ObtainPresent(task, d)
  \/ \E task \in tasks, d \in Domains : ObtainCleanUp(task, d)
  \/ \E task \in tasks, bundle \in Bundles(now) : ObtainSucceeds(task, bundle)
  \/ \E task \in tasks : ObtainFails(task)
  \/ \E serverName \in ServerNames : DoGetCertificate(serverName)
  \/ Checked

SpecTLS == Init /\ [][NextTLS]_vars

\* ------------------------------------------------------------- shutdown
ProcStep(p) ==
  /\ proc' = p
  /\ UNCHANGED reconcilerVars
  /\ UNCHANGED <<acme, challenges, certificates, tasks, issued, now, last, config, boot>>
  /\ UNCHANGED <<served, checked>>

\* a listener accepts a connection and starts to serve its request
Accept(l) ==
  /\ ~proc.exited
  /\ proc.servers[l].state = "serving"
  /\ proc.servers[l].inflight < MaxInflight
  /\ ProcStep([proc EXCEPT !.servers[l].inflight = @ + 1])

\* the handler of a request returns
RequestDone(l) ==
  /\ ~proc.exited
  /\ proc.servers[l].inflight > 0
  /\ ProcStep([proc EXCEPT !.servers[l].inflight = @ - 1])

\* SIGINT or SIGTERM: signal.NotifyContext cancels the root context
Cancel ==
  /\ ~proc.exited
  /\ ~proc.cancelled
  /\ ProcStep([proc EXCEPT !.cancelled = TRUE])

\* the goroutine of a listener wakes on ctx.Done() and calls server.Shutdown,
\* which closes the listeners; ListenAndServe returns ErrServerClosed at once
Shutdown(l) ==
  /\ ~proc.exited
  /\ proc.cancelled
  /\ proc.servers[l].state = "serving"
  /\ ProcStep([proc EXCEPT !.servers[l].state = "shutdown",
                           !.servers[l].returned = TRUE])

\* server.Shutdown returns: no connection is left in service
ShutdownReturns(l) ==
  /\ ~proc.exited
  /\ proc.servers[l].state = "shutdown"
  /\ proc.servers[l].inflight = 0
  /\ ProcStep([proc EXCEPT !.servers[l].state = "closed"])

\* srv.Listen(ctx) has returned ErrServerClosed: run returns nil and its
\* deferred calls run, dckr.Close() and database.Close()
RunReturns ==
  /\ ~proc.exited
  /\ ~proc.closed
  /\ proc.servers["management"].returned
  /\ ProcStep([proc EXCEPT !.closed = TRUE])

\* main returns after run: the process ends with its goroutines
Exit ==
  /\ proc.closed
  /\ ~proc.exited
  /\ ProcStep([proc EXCEPT !.exited = TRUE])

NextShutdown ==
  \/ \E l \in Listeners : Accept(l)
  \/ \E l \in Listeners : RequestDone(l)
  \/ Cancel
  \/ \E l \in Listeners : Shutdown(l)
  \/ \E l \in Listeners : ShutdownReturns(l)
  \/ RunReturns
  \/ Exit

SpecShutdown == Init /\ [][NextShutdown]_vars

\* ------------------------------------------------------------- validation
\* the requests validate is given: a project name or none, no service, one
\* service or two, and each field of a service with and without its faults
VolumeLists ==
  {<<>>,
   <<Volume(<<"data">>, <<"/", "data">>)>>,
   <<Volume(<<>>, <<>>)>>,
   <<Volume(<<"my", " ", "data">>, <<"data">>)>>,
   <<Volume(<<"data">>, <<"/", "data">>), Volume(<<"logs">>, <<"logs">>)>>}
ValidatedServices ==
  {[ServiceOptions(name, type, uri, domains, port, challenge, memory)
      EXCEPT !.Volumes = volumes] :
     name \in {"", "s1"}, type \in {"", "docker", "git"}, uri \in {"", "img:1"},
     domains \in {<<>>, D1}, port \in {0, 80},
     challenge \in {"", ChallengeTypeHTTP, ChallengeTypeNone, ChallengeTypeDNS},
     memory \in {0, 64, 128}, volumes \in VolumeLists}
ValidatedRequests ==
  {ApplyProjectOptions(project, services) :
     project \in {"", "p1"},
     services \in {<<>>} \cup {<<s>> : s \in ValidatedServices}
                  \cup {<<Svc("s1", "img:1", D1, 80), s>> : s \in ValidatedServices}}

\* opts.validate() is called
DoValidate(opts) ==
  /\ checked = NoCheck
  /\ checked' = [op |-> "validate", opts |-> opts, err |-> validate(opts)]
  /\ UNCHANGED reconcilerVars
  /\ UNCHANGED certVars
  /\ UNCHANGED served

NextValidate ==
  \/ \E opts \in ValidatedRequests : DoValidate(opts)
  \/ Checked

SpecValidate == Init /\ [][NextValidate]_vars

\* ------------------------------------------------------------ properties
\* the project a handler acts for, its request and its services
Declared(t) ==
  {ContainerName(loc[t].project, loc[t].opts.Services[k].Name) :
     k \in 1..Len(loc[t].opts.Services)}
Returned(t, op) == loc[t].op = op /\ loc[t].pc = "done"

\* C1: when ApplyProject(R) has succeeded and nothing outside changes, a
\* second ApplyProject(R) creates, removes and starts no container, deletes
\* and writes no route, and stores the services list the first call stored.
IdempotentApply ==
  \A t \in Threads :
    (Returned(t, "apply") /\ loc[t].again /\ loc[t].err = "")
      => /\ loc[t].n = NoCounts
         /\ projects[loc[t].project] = loc[t].before

\* the ingress that handler t is registering is bound to another project or
\* to another service of its project
BoundElsewhere(t) ==
  LET ingress == loc[t].services[loc[t].i].Ingress
      route == routes[ingress.Domain]
  IN /\ route # NoRoute
     /\ \/ route.Project # ingress.TargetProject
        \/ route.Service # ingress.TargetService

\* C2: RegisterRoute returns an error and writes no route whenever the domain
\* is bound to a different project or to a different service of the project.
RegisterFailsOnConflict ==
  [][\A t \in Threads :
       (loc[t].pc = "RegisterRoute" /\ BoundElsewhere(t) /\ loc'[t] # loc[t])
         => (loc'[t].pc = "done" /\ loc'[t].err # "" /\ routes' = routes)]_vars

\* C3: the stored route of a domain is changed, replaced or removed only by a
\* call made for the project that owns it.
RouteOwnerKept ==
  [][\A d \in Domains :
       (routes[d] # NoRoute /\ routes'[d] # routes[d])
         => \E t \in Threads :
              loc'[t] # loc[t] /\ loc[t].project = routes[d].Project]_vars

\* C4: when ApplyProject returns after its runtime steps, with or without an
\* error, every stored route of the project targets the endpoint of an
\* existing container of the project, and every container with the project's
\* label is the container of a service the request declares.
NoOrphans ==
  \A t \in Threads :
    (Returned(t, "apply") /\ loc[t].err \notin {"validation", "image"})
      => /\ \A d \in Domains :
              (routes[d] # NoRoute /\ routes[d].Project = loc[t].project)
                => \E n \in ContainerNames :
                     /\ containers[n] # NoContainer
                     /\ containers[n].Project = loc[t].project
                     /\ containers[n].Endpoint = routes[d].Endpoint
         /\ \A n \in ContainerNames :
              (containers[n] # NoContainer /\ containers[n].Project = loc[t].project)
                => n \in Declared(t)

\* C5: when ApplyProject(R) was aborted by a failing runtime or store call and
\* is applied again with no call failing, it succeeds and ends with the
\* containers, routes, networks and stored services that the aborted call
\* would have ended with had no call failed.
ReapplyRecovers ==
  \A t \in Threads :
    (Returned(t, "apply") /\ loc[t].retry /\ ~loc[t].faulted /\ loc[t].ref.err = "")
      => /\ loc[t].err = ""
         /\ Norm(W(t)) = loc[t].ref.w
ReapplyRecoversWitness ==
  \E t \in Threads :
    /\ Returned(t, "apply") /\ loc[t].retry /\ ~loc[t].faulted /\ loc[t].ref.err = ""
    /\ loc[t].err = ""
    /\ loc[t].n.started > 0
    /\ loc[t].n.created = 0

\* C6: the stored services list of a project changes only in the last step
\* of an apply that returns success, which writes the applied services in one
\* write (or in the last step of a removal that returns success), so an
\* apply that returns an error leaves it as it was.
ServicesWrittenLast ==
  [][\A p \in Projects :
       projects'[p] # projects[p]
         => \E t \in Threads :
              /\ loc[t].project = p
              /\ loc'[t].pc = "done" /\ loc'[t].err = ""
              /\ \/ /\ loc[t].op = "apply" /\ loc[t].pc = "SaveProject"
                    /\ projects'[p] = loc[t].services
                 \/ /\ loc[t].op = "remove" /\ loc[t].pc = "RemoveProject"
                    /\ projects'[p] = <<>>]_vars
ServicesWrittenLastWitness ==
  \E t \in Threads :
    /\ Returned(t, "apply") /\ loc[t].err = "save"
    /\ loc[t].n.created > 0
    /\ loc[t].before # <<>>
    /\ projects[loc[t].project] = loc[t].before

\* C7: after ApplyProject returns success every declared service has a
\* running container of its name whose hash is the service's, and the route
\* of the service's domain targets that container's endpoint.
AppliedServicesRun ==
  \A t \in Threads :
    (Returned(t, "apply") /\ loc[t].err = "")
      => \A k \in 1..Len(loc[t].services) :
           LET s == loc[t].services[k]
               c == containers[s.ContainerName]
           IN /\ c # NoContainer
              /\ IsRunning(c)
              /\ c.ConfigHash = s.Hash
              /\ routes[s.Ingress.Domain] # NoRoute
              /\ routes[s.Ingress.Domain].Endpoint = c.Endpoint

\* C8: RemoveProject(p) removes the routes, then the containers, then the
\* network, then the record; when it returns success no route targets p, no
\* container carries p's label and p has no record.
RemoveProjectRemovesAll ==
  \A t \in Threads :
    (Returned(t, "remove") /\ loc[t].err = "")
      => /\ loc[t].log = <<"routes", "containers", "network", "record">>
         /\ \A d \in Domains : routes[d].Project # loc[t].project
         /\ \A n \in ContainerNames : containers[n].Project # loc[t].project
         /\ projects[loc[t].project] = <<>>

\* C9: in RemoveProject a failure while removing routes or containers is
\* returned and leaves the project record stored; a failure while deleting
\* the network is not returned and the record is deleted all the same.
NetworkFailureNotFatal ==
  \A t \in Threads :
    Returned(t, "remove")
      => /\ loc[t].err \in {"routes", "containers"}
              => /\ projects[loc[t].project] = loc[t].before
                 /\ loc[t].before # <<>>
                 /\ NotIn(loc[t].log, "record")
         /\ loc[t].netFailed => loc[t].err \in {"", "record"}
         /\ (loc[t].netFailed /\ loc[t].err = "") => projects[loc[t].project] = <<>>
NetworkFailureNotFatalWitness ==
  \E t \in Threads :
    /\ Returned(t, "remove") /\ loc[t].netFailed /\ loc[t].err = ""
    /\ loc[t].before # <<>>
    /\ projects[loc[t].project] = <<>>

ConcurrentSaveWhole ==
  (/\ Returned("t1", "apply") /\ Returned("t2", "apply")
   /\ loc["t1"].err = "" /\ loc["t2"].err = ""
   /\ loc["t1"].project = loc["t2"].project)
    => projects[loc["t1"].project] \in {loc["t1"].services, loc["t2"].services}
ConcurrentSaveWholeWitness ==
  /\ Returned("t1", "apply") /\ Returned("t2", "apply")
  /\ loc["t1"].err = "" /\ loc["t2"].err = ""
  /\ loc["t1"].project = loc["t2"].project
  /\ loc["t1"].services # loc["t2"].services
  /\ projects[loc["t1"].project] = loc["t1"].services

\* C12: CleanUp(d, t, a) deletes the challenge record of d exactly when a
\* record of d exists with token t and key authorization a; in every other
\* case it returns success and leaves the challenge bucket unchanged.
CleanUpConditional ==
  last.op = "CleanUp"
    => /\ last.err = ""
       /\ last.after =
            IF /\ last.before[last.domain] # NoChallenge
               /\ last.before[last.domain].Token = last.token
               /\ last.before[last.domain].Auth = last.auth
            THEN [last.before EXCEPT ![last.domain] = NoChallenge]
            ELSE last.before
\* a stale CleanUp found the record of a newer challenge and left it
CleanUpConditionalWitness ==
  /\ last.op = "CleanUp"
  /\ last.before[last.domain] # NoChallenge
  /\ last.before[last.domain].Token # last.token
  /\ last.after = last.before

\* C13: a request for the ACME challenge path with token tok and host h is
\* answered 200 with the stored key authorization as body exactly when the
\* domain of h (its port stripped) has a challenge record whose token is tok,
\* and 404 in every other case.
AcmeChallengeAnswer ==
  (served.called /\ IsAcmeChallenge(served.request))
    => LET r == served.request
           domain == IF Index(r.Host, ":") = 0 THEN Str(r.Host) ELSE r.Host[1]
           record == IF domain \in Domains THEN challenges[domain] ELSE NoChallenge
           tok == Str(Tail(r.Path))
       IN IF record # NoChallenge /\ record.Token = tok
          THEN served.response = Response(200, <<>>, record.Auth, 0)
          ELSE served.response = Response(404, <<>>, "", 0)
\* a host with a port is answered with the key authorization of its domain
AcmeChallengeAnswerWitness ==
  /\ served.called /\ IsAcmeChallenge(served.request)
  /\ Index(served.request.Host, ":") # 0
  /\ served.response.status = 200
  /\ served.response.body = KeyAuthorization(Token(1))

\* C19: a plain-HTTP request whose path does not start with the ACME prefix
\* is answered 301 with Location "https://" + Host + request URI and is not
\* forwarded to a backend; one whose path starts with the prefix is not
\* redirected.
HTTPRedirect ==
  (served.called /\ ~served.request.TLS)
    => LET r == served.request
       IN IF r.Path[1] # AcmePrefix
          THEN served.response =
                 Response(301, <<"https://">> \o r.Host \o r.Path \o r.Query, "", 0)
          ELSE /\ served.response.status # 301
               /\ served.response.location = <<>>
\* a plain-HTTP request for a host that has a route with a running backend
HTTPRedirectWitness ==
  /\ served.called /\ ~served.request.TLS
  /\ served.request.Path = <<"/path">>
  /\ served.request.Host = <<DomainOrder[1], ":", "8080">>
  /\ routes[DomainOrder[1]] # NoRoute
  /\ routes[DomainOrder[1]].Endpoint \in BoundPorts(W("t1"))
  /\ served.response.status = 301

\* C16: ChallengeCreate with challenge type NONE returns success, starts no
\* obtain task and leaves the store unchanged, with or without an ACME
\* client.
NoneSkipped ==
  (last.op = "ChallengeCreate" /\ last.challenge = ChallengeTypeNone)
    => (last.err = "" /\ ~last.started /\ ~last.changed)

\* the fields of a request that violate a rule of validation
Violations(opts) ==
  LET S == opts.Services
      field(i, name) == "services[" \o ToString(i - 1) \o "]." \o name
      vfield(i, j, name) ==
        "services[" \o ToString(i - 1) \o "].volumes[" \o ToString(j - 1) \o "]." \o name
      service(i) ==
        {field(i, "name") : x \in {1} \cap {k \in {1} : S[i].Name = ""}}
        \cup {field(i, "source.type") : x \in {k \in {1} : S[i].Source.Type # "docker"}}
        \cup {field(i, "source.uri") : x \in {k \in {1} : S[i].Source.URI = ""}}
        \cup {field(i, "container_port") :
                x \in {k \in {1} : S[i].IngressDomains # <<>> /\ S[i].ContainerPort < 1}}
        \cup {field(i, "challenge_type") :
                x \in {k \in {1} : /\ S[i].IngressDomains # <<>>
                                    /\ S[i].ChallengeType \notin {"HTTP-01", "NONE"}}}
        \cup {field(i, "quota.memory_limit") :
                x \in {k \in {1} : S[i].Quota.MemoryLimit \in 1..127}}
        \cup {vfield(i, j, "name") :
                j \in {k \in 1..Len(S[i].Volumes) :
                         \/ S[i].Volumes[k].Name = <<>>
                         \/ \E c \in 1..Len(S[i].Volumes[k].Name) :
                              S[i].Volumes[k].Name[c] = " "}}
        \cup {vfield(i, j, "path") :
                j \in {k \in 1..Len(S[i].Volumes) :
                         \/ S[i].Volumes[k].Path = <<>>
                         \/ S[i].Volumes[k].Path[1] # "/"}}
  IN {"project_name" : x \in {k \in {1} : opts.ProjectName = ""}}
     \cup {"services" : x \in {k \in {1} : S = <<>>}}
     \cup UNION {service(i) : i \in 1..Len(S)}

\* C20: validate returns a field-to-reason map with an entry for every field
\* that violates a rule, and no error exactly when no rule is violated.
ValidateTotal ==
  checked.op = "validate"
    => /\ DOMAIN checked.err = Violations(checked.opts)
       /\ \A f \in DOMAIN checked.err : checked.err[f] # ""
       /\ HasFailures(checked.err) = (Violations(checked.opts) # {})
\* a request with no project name whose second service has a volume with a
\* fault: both fields are reported
ValidateTotalWitness ==
  /\ checked.op = "validate"
  /\ {"project_name", "services[1].volumes[0].name", "services[1].source.type"}
       \subseteq DOMAIN checked.err
\* ----------------------------------------------------------------------
\* whether every domain of the list is mapped to a stored certificate that
\* parses and whose NotAfter is not earlier than the time
Unexpired(ce, time, domains) ==
  \A d \in Range(domains) :
     \E c \in ce.bucket : /\ c.ID = ce.mapping[d]
                          /\ c.Certificate.parses
                          /\ c.Certificate.NotAfter >= time
\* the ids of the stored certificates
StoredIDs == {c.ID : c \in certificates.bucket}

\* C18: HasValidCertificate(domains) returns true exactly when every listed
\* domain has a stored certificate that parses and whose NotAfter is not
\* earlier than the current time; one listed domain without a certificate,
\* with an unparseable or with an expired one makes it return false.
HasValidCertificateIff ==
  checked.op = "HasValidCertificate"
    => (checked.valid <=> Unexpired(certificates, now, checked.domains))
\* two domains are asked for: the first has a valid certificate and the
\* second an expired one, and the answer is false
HasValidCertificateIffWitness ==
  /\ checked.op = "HasValidCertificate"
  /\ Len(checked.domains) = 2
  /\ Unexpired(certificates, now, SubSeq(checked.domains, 1, 1))
  /\ \E c \in certificates.bucket :
        /\ c.ID = certificates.mapping[checked.domains[2]]
        /\ c.Certificate.parses
        /\ c.Certificate.NotAfter < now
  /\ ~checked.valid

MappingIntegrity ==
  \A d \in Domains :
     certificates.mapping[d] # 0 => certificates.mapping[d] \in StoredIDs
\* a certificate was deleted by id while another one is mapped
MappingIntegrityWitness ==
  /\ checked.op = "RemoveCertificate"
  /\ checked.err = ""
  /\ checked.id \notin StoredIDs
  /\ \E d \in Domains : certificates.mapping[d] # 0

\* C15: a certificate leaves the bucket only while no mapping refers to its
\* id: a delete by id of a mapped certificate is rejected and changes
\* nothing, and Batch removes a certificate only when it is expired and no
\* mapping refers to it.
CertificateKeptWhileMapped ==
  [][/\ \A c \in certificates.bucket :
          c \notin certificates'.bucket
            => /\ \A d \in Domains : certificates.mapping[d] # c.ID
               /\ checked'.op = "Batch"
                    => (c.Certificate.parses /\ now > c.Certificate.NotAfter)
     /\ (/\ checked = NoCheck
         /\ checked'.op = "RemoveCertificate"
         /\ \E d \in Domains : certificates.mapping[d] = checked'.id)
          => (checked'.err # "" /\ certificates' = certificates)]_vars
\* Batch has removed an expired certificate no mapping refers to, and an
\* expired certificate that is mapped is still in the bucket
CertificateKeptWhileMappedWitness ==
  /\ checked.op = "Batch"
  /\ checked.id \notin StoredIDs
  /\ \E c \in certificates.bucket :
        /\ c.Certificate.parses /\ now > c.Certificate.NotAfter
        /\ \E d \in Domains : certificates.mapping[d] = c.ID


\* C21: an apply request that fails validation is answered with a 4xx
\* status, never with a 5xx status.
ValidationAnswered4xx ==
  \A t \in Threads :
    (Returned(t, "apply") /\ loc[t].err = "validation")
      => HandleProjectApply(loc[t]).status \in 400..499


\* C22: initialisation of the ACME account takes at most two attempts: a
\* failed QueryRegistration clears the stored email, private key and
\* registration and init is called once more, and that retry generates a key
\* and registers instead of querying again.
AcmeInitRetriedOnce ==
  /\ boot.attempts <= 2
  /\ boot.queries <= 1
  /\ boot.isRetry
       => /\ boot.attempts = 2
          /\ boot.queries = 1
          /\ boot.pc \notin {"QueryRegistration", "ClearAcme"}
          /\ boot.pc = "init"
               => (config.email = "" /\ config.key = 0 /\ config.registration = 0)
          /\ boot.pc \notin {"init", "exit"}
               => (boot.user.PrivateKey = boot.keys
                     /\ boot.user.PrivateKey # boot.before.key)
          /\ boot.pc = "done" => config.registration = boot.registrations
\* the stored account was valid, its query failed, and the retry is done
AcmeInitRetriedOnceWitness ==
  /\ boot.pc = "done"
  /\ boot.isRetry
  /\ IsValid(registration(boot.before))
  /\ boot.before.email = boot.email
  /\ boot.before.directory = boot.directory

\* C23: the account is written to the store only after Register has
\* succeeded, and it is rotated on any parameter change: when init has
\* completed for email e and directory u the stored account is valid and
\* carries e and u, and if the stored email or directory differed or the
\* stored account was not valid, a newly generated key and a new registration
\* have replaced the old ones.
AcmeAccountRotated ==
  /\ [](boot.pc = "done"
          => /\ IsValid(registration(config))
             /\ config.email = boot.email
             /\ config.directory = boot.directory
             /\ (\/ boot.before.email # boot.email
                 \/ boot.before.directory # boot.directory
                 \/ ~IsValid(registration(boot.before)))
                  => /\ config.key = boot.keys
                     /\ config.key # boot.before.key
                     /\ config.registration = boot.registrations
                     /\ config.registration # boot.before.registration)
  /\ [][(config' # config /\ config' # ClearAcme(config))
          => /\ boot.pc \in {"SetAcmeEmail", "SetAcmePrivateKey",
                             "SetAcmeRegistration", "SetAcmeDirectory"}
             /\ boot.user.Registration # 0
             /\ boot.user.Registration # boot.before.registration]_vars
\* a valid account was stored for the email, the daemon was started with
\* another directory, and init is done
AcmeAccountRotatedWitness ==
  /\ boot.pc = "done"
  /\ ~boot.isRetry
  /\ IsValid(registration(boot.before))
  /\ boot.before.email = boot.email
  /\ boot.before.directory # boot.directory


\* handler t has just had RemoveUnusedContainers return success, and the
\* names it was told to keep
RemovedUnusedContainers(t) ==
  \/ loc[t].op = "apply" /\ loc[t].pc = "FindContainer" /\ loc[t].i = 1
  \/ loc[t].op = "remove" /\ loc[t].pc = "DeleteNetwork"
Keep(t) == IF loc[t].op = "apply" THEN loc[t].names ELSE <<>>

\* C24: after RemoveUnusedContainers(p, keep) has returned success, no
\* container of project p, running or stopped, has a name that is absent
\* from keep.
UnusedContainersRemoved ==
  \A t \in Threads :
    RemovedUnusedContainers(t)
      => \A n \in ContainerNames :
           (containers[n] # NoContainer /\ containers[n].Project = loc[t].project)
             => ~NotIn(Keep(t), containers[n].Name)


\* the domains handler t told RemoveUnusedRoutes to keep
KeepDomains(t) == IF loc[t].op = "apply" THEN loc[t].domains ELSE <<>>

\* C25: RemoveUnusedRoutes(p, keep) deletes exactly the stored routes of
\* project p whose domain is not in keep, returns the number of routes it
\* deleted, and leaves the routes of other projects and the routes of p whose
\* domain is in keep unchanged.
UnusedRoutesRemoved ==
  /\ [](\A t \in Threads :
          loc[t].pc = "RemoveUnusedContainers"
            => /\ \A d \in Domains :
                    (routes[d] # NoRoute /\ routes[d].Project = loc[t].project)
                      => ~NotIn(KeepDomains(t), d)
               /\ loc[t].removed = loc[t].n.deleted)
  /\ [][\A t \in Threads :
          (loc[t].pc \in {"RemoveUnusedRoutes", "RemoveUnusedRoute"} /\ routes' # routes)
            => \E d \in Domains :
                 /\ routes[d] # NoRoute
                 /\ routes[d].Project = loc[t].project
                 /\ NotIn(KeepDomains(t), d)
                 /\ routes' = [routes EXCEPT ![d] = NoRoute]]_vars
\* an apply of p1 has had one route of p1 removed and another kept
UnusedRoutesRemovedWitness ==
  /\ loc["t1"].op = "apply"
  /\ loc["t1"].pc = "RemoveUnusedContainers"
  /\ loc["t1"].removed = 1
  /\ \E d \in Domains : routes[d] # NoRoute /\ routes[d].Project = loc["t1"].project


\* two maps hold the same entries (the nil map and the empty map hold none)
SameEntries(m1, m2) == m1.Entries = m2.Entries

\* two services agree on source, environment, container port, quota and volumes
SameConfiguration(a, b) ==
  /\ a.Source.Type = b.Source.Type
  /\ a.Source.URI = b.Source.URI
  /\ SameEntries(a.Source.Opts, b.Source.Opts)
  /\ SameEntries(a.Environment, b.Environment)
  /\ a.Ingress.ContainerPort = b.Ingress.ContainerPort
  /\ a.Quota = b.Quota
  /\ a.Volumes = b.Volumes

\* C26: hash stability.  Two services that agree on source, environment,
\* container port, quota and volumes have the same configuration hash,
\* whatever their names, and the hash of one service taken twice is the same.
HashStable ==
  (checked.op = "CalculateHash" /\ SameConfiguration(checked.a, checked.b))
    => checked.ha = checked.hb

\* the part of C26 that the code keeps: the name has no part in the hash, and
\* the hash of one service taken twice is the same
HashOfNameless ==
  (checked.op = "CalculateHash"
   /\ [checked.a EXCEPT !.Name = "", !.ContainerName = "", !.Ingress.TargetService = "",
                        !.Hash = <<>>]
      = [checked.b EXCEPT !.Name = "", !.ContainerName = "", !.Ingress.TargetService = "",
                          !.Hash = <<>>])
    => checked.ha = checked.hb

\* C27: hash sensitivity.  Two services that differ in source type or URI,
\* environment, container port, quota or volumes have different configuration
\* hashes (no two buffers have the same digest).
HashSensitive ==
  (checked.op = "CalculateHash" /\ ~SameConfiguration(checked.a, checked.b))
    => checked.ha # checked.hb

\* two services that differ in their volumes alone have been hashed
HashSensitiveWitness ==
  /\ checked.op = "CalculateHash"
  /\ checked.a.Volumes # checked.b.Volumes
  /\ SameConfiguration([checked.a EXCEPT !.Volumes = <<>>],
                       [checked.b EXCEPT !.Volumes = <<>>])
  /\ checked.ha # checked.hb


\* the ports of the pool that can be bound
FreePorts == (PortStartRange..PortEndRange) \ BoundPorts([containers |-> containers])

\* C28: the port CreateContainer gets from GetAvailablePort for a service
\* with a container port lies in the pool and could be bound when it was
\* taken, and there is one whenever a port of the pool can be bound; when
\* none can be bound the creation fails and no container is created.
PortAllocation ==
  [][\A t \in Threads :
       (/\ loc[t].pc = "CreateContainer"
        /\ loc'[t] # loc[t]
        /\ faults' = faults
        /\ loc[t].services[loc[t].i].Ingress.ContainerPort > 0)
       => IF FreePorts = {}
          THEN loc'[t].err # "" /\ containers' = containers
          ELSE containers[loc[t].services[loc[t].i].ContainerName] = NoContainer
               => /\ loc'[t].err = ""
                  /\ containers'[loc[t].services[loc[t].i].ContainerName].Endpoint
                       \in FreePorts]_vars

\* a creation has failed because every port of the pool is bound
PortAllocationWitness ==
  \E t \in Threads :
    /\ loc[t].pc = "done"
    /\ loc[t].err = "create"
    /\ ~loc[t].faulted
    /\ FreePorts = {}
    /\ loc[t].services[loc[t].i].Ingress.ContainerPort > 0
    /\ containers[loc[t].services[loc[t].i].ContainerName] = NoContainer


\* C29: ToBytes(mb) is mb times 1,000,000, so ToBytes(128) is 128,000,000, and
\* a created container is given the memory limit ToBytes(quota) when the
\* service sets a quota and ToBytes(128) when it does not.
MemoryLimitInBytes ==
  /\ [](\A mb \in MemoryLimits : ToBytes(mb) = mb * 1000000)
  /\ [][\A t \in Threads :
          (/\ loc[t].pc = "CreateContainer"
           /\ loc'[t].pc = "StartCreated")
          => containers'[loc[t].services[loc[t].i].ContainerName].Memory
               = IF loc[t].services[loc[t].i].Quota.MemoryLimit > 0
                 THEN loc[t].services[loc[t].i].Quota.MemoryLimit * 1000000
                 ELSE 128000000]_vars

\* a container with a quota of 256 MB and one with no quota have been created
MemoryLimitInBytesWitness ==
  /\ containers[ContainerName("p1", "s1")].Memory = 256000000
  /\ containers[ContainerName("p1", "s2")].Memory = 128000000
  /\ projects["p1"] # <<>>
  /\ projects["p1"][1].Quota.MemoryLimit = 256
  /\ projects["p1"][2].Quota.MemoryLimit = 0


GracefulShutdown ==
  proc.closed
  => \A l \in Listeners : proc.servers[l].state = "closed" /\ proc.servers[l].inflight = 0


\* C33: no two obtain tasks in flight have a domain in common, whenever the
\* calls of ChallengeCreate come.
ObtainTasksDisjoint ==
  \A t1 \in tasks, t2 \in tasks :
    t1 # t2 => Range(t1.Domains) \cap Range(t2.Domains) = {}


\* C34: from the return of Present(d, t, a) to the call of CleanUp(d, t, a),
\* Authorize(d, t) returns a, whatever other calls of Present and CleanUp are
\* made in between.
PresentedStaysAnswerable ==
  \A task \in tasks : \A d \in task.presented \ task.cleaned :
    Authorize(M, d, Token(task.ID))
      = [auth |-> KeyAuthorization(Token(task.ID)), err |-> ""]


\* C35: no two containers are mapped to the same host port, and no two routes
\* of different services have the same target endpoint.
HostPortsDistinct ==
  /\ \A n1 \in ContainerNames, n2 \in ContainerNames :
       (n1 # n2 /\ containers[n1] # NoContainer /\ containers[n2] # NoContainer
        /\ containers[n1].Endpoint # 0)
       => containers[n1].Endpoint # containers[n2].Endpoint
  /\ \A d1 \in Domains, d2 \in Domains :
       (routes[d1] # NoRoute /\ routes[d2] # NoRoute /\ routes[d1].Endpoint # 0
        /\ <<routes[d1].Project, routes[d1].Service>>
             # <<routes[d2].Project, routes[d2].Service>>)
       => routes[d1].Endpoint # routes[d2].Endpoint


\* C36: when two concurrent applies of one project have both returned
\* success, every service of the stored list has a container, and every
\* stored route of the project has the endpoint of a container of the project.
ConcurrentApplyConsistent ==
  \A p \in Projects :
    (\A t \in Threads : /\ loc[t].pc = "done" /\ loc[t].op = "apply"
                        /\ loc[t].err = "" /\ loc[t].project = p)
    => /\ \A k \in 1..Len(projects[p]) :
            containers[projects[p][k].ContainerName] # NoContainer
       /\ \A d \in Domains :
            (routes[d] # NoRoute /\ routes[d].Project = p)
            => \E n \in ContainerNames :
                 /\ containers[n] # NoContainer
                 /\ containers[n].Project = p
                 /\ containers[n].Endpoint = routes[d].Endpoint


\* C37: whenever RegisterRoute returns success, the store holds for the
\* domain of the ingress a record with the target project, service and
\* endpoint of the ingress.
RegisteredRouteStored ==
  [][\A t \in Threads :
       (/\ loc[t].pc \in {"RegisterRoute", "SaveIngressRoute"}
        /\ loc'[t].pc \in {"FindContainer", "SaveProject"})
       => routes'[loc[t].services[loc[t].i].Ingress.Domain]
            = IngressRoute(loc[t].services[loc[t].i].Ingress.Domain,
                           loc[t].services[loc[t].i].Ingress.TargetEndpoint,
                           loc[t].services[loc[t].i].Ingress.TargetService,
                           loc[t].services[loc[t].i].Ingress.TargetProject)]_vars


\* C38: a domain has a challenge record only while an obtain task whose
\* domains include it is in flight; when the task has ended or the process
\* has restarted no record of the domain is left.
ChallengeOnlyInFlight ==
  \A d \in Domains :
    challenges[d] # NoChallenge => \E task \in tasks : d \in Range(task.Domains)


\* the containers and routes of a project
RemainsOf(p) ==
  {n \in ContainerNames : containers[n] # NoContainer /\ containers[n].Project = p}
    \cup {d \in Domains : routes[d] # NoRoute /\ routes[d].Project = p}

\* C39: what an apply of a project has created can be removed through the
\* API: a DELETE of the project is refused only when nothing of the project
\* exists, and when it returns success nothing of the project is left.
AppliedCanBeDeleted ==
  \A t \in Threads :
    (loc[t].pc = "done" /\ loc[t].op = "remove" /\ loc[t].project \in Projects)
    => /\ loc[t].err = "not_found" => RemainsOf(loc[t].project) = {}
       /\ loc[t].err = "" => RemainsOf(loc[t].project) = {}


\* C40: an apply whose request fails validation has no effect: the call ends
\* at once with the validation error, the containers, networks, routes and
\* stored projects are as before, and the call has created, started, removed,
\* registered and stored nothing.
InvalidApplyHasNoEffect ==
  /\ [](\A t \in Threads :
          loc[t].err = "validation" => loc[t].pc = "done" /\ loc[t].n = NoCounts)
  /\ [][\A t \in Threads :
          (loc[t].pc = "idle" /\ loc'[t].op = "apply" /\ loc'[t].pc # "idle"
           /\ HasFailures(validate(loc'[t].opts)))
          => /\ loc'[t].pc = "done"
             /\ loc'[t].err = "validation"
             /\ UNCHANGED <<containers, networks, routes, projects>>]_vars

\* a request that fails validation was made while the project had a
\* container, a route and a stored list
InvalidApplyHasNoEffectWitness ==
  \E t \in Threads :
    /\ loc[t].pc = "done"
    /\ loc[t].err = "validation"
    /\ loc[t].project \in Projects
    /\ projects[loc[t].project] # <<>>
    /\ RemainsOf(loc[t].project) # {}
    /\ loc[t].project \in networks

====
